---------------------------- MODULE Spec2Model ----------------------------
(***************************************************************************)
(* A model of the MAF filter-iterator pipeline of src/MafIterator.h:       *)
(* MafSequence, MafBlock and the pull-based stages (BlockSizeMafIterator,  *)
(* SequenceFilterMafIterator, BlockMergerMafIterator,                      *)
(* FullGapFilterMafIterator, AlignmentFilterMafIterator,                   *)
(* TrashIteratorAdapter, OutputMafIterator, MafIteratorSynchronizer).      *)
(* Every behaviour exercises one object: the variable obj names it, and    *)
(* the other objects' variables keep their idle value.                     *)
(***************************************************************************)
EXTENDS Integers, Sequences, FiniteSets, TLC

VARIABLES
  obj,      \* which object this behaviour exercises
  mseq,     \* the MafSequence under test (its fields)
  mlast,    \* the last call made on mseq: [op, ret, pre]
  mcoord,   \* history: the last event that decided mseq's coordinates
  blk,      \* the MafBlock under construction
  blast,    \* the last addSequence call on blk: [ret, pre, arg]
  szf,      \* BlockSizeMafIterator: [minSize_, verbose_, logstream_]
  szUp,     \* its upstream: the blocks not yet pulled
  szUp0,    \* history: the upstream as it was at construction
  szRet,    \* history: what its nextBlock calls returned, in order
  szDel,    \* history: the blocks it deleted, in order
  szLog,    \* the lines written to its log stream
  szLast,   \* the last nextBlock call: [verbose, logstream, pulled, ret, del, log]
  syP,      \* MafIteratorSynchronizer: the primary's blocks not yet pulled
  syS,      \* the secondary's blocks not yet pulled
  syP0,     \* history: the primary at construction
  syS0,     \* history: the secondary at construction
  syPulls,  \* history: the pulls made, "P" or "S", in order
  syRet,    \* history: what its nextBlock calls returned, in order
  syDel,    \* history: the blocks it deleted, in order
  syLast,   \* the last call: what each source returned in it
  ouf,      \* OutputMafIterator: [output_, mask_]
  ouUp,     \* its upstream: the blocks not yet pulled
  ouUp0,    \* history: the upstream at construction
  ouRet,    \* history: what its nextBlock calls returned, in order
  ouSink,   \* what was written to *output_, in order
  ouLast,   \* the last call: [pulled, ret, wrote]
  mgf,      \* BlockMergerMafIterator: [species_, maxDist_, ignoreChrs_]
  mgIn,     \* its incomingBlock_ (the buffered block), or NULL
  mgUp,     \* its upstream: the blocks not yet pulled
  mgUp0,    \* history: the upstream at construction
  mgRet,    \* history: what its nextBlock calls returned, in order
  mgRuns,   \* history: for each returned block, how many upstream blocks it holds
  mgMerges, \* history: the merges made: [buffered, candidate, merged]
  taSrc,    \* TrashIteratorAdapter: what its trash source has yet to hand out
  taSrc0,   \* history: the trash source at construction
  taRet,    \* history: what its nextBlock calls returned, in order
  taLast,    \* the last call: [pulled, ret]
  sff,      \* SequenceFilterMafIterator: [species_, strict_, rmDuplicates_, currentBlock_]
  sfUp,     \* its upstream: the blocks not yet pulled
  sfUp0,    \* history: the upstream at construction
  sfRet,    \* history: what its nextBlock calls returned, in order
  sfDel,    \* history: the upstream blocks it discarded, in order
  sfLast,    \* the last call: [pulled, ret]
  fgf,      \* FullGapFilterMafIterator: [species_]
  fgUp,     \* its upstream: the blocks not yet pulled
  fgUp0,    \* history: the upstream at construction
  fgRet,    \* history: what its nextBlock calls returned, in order
  fgFrom,   \* history: for each result, the upstream block it was made from
  fgDel,    \* history: the upstream blocks it discarded, in order
  fgLast,    \* the last call: [pulled, ret]
  wff,      \* AlignmentFilterMafIterator: [species_, windowSize_, step_, maxGap_, keepTrashedBlocks_]
  wfUp,     \* its upstream: the blocks not yet pulled
  wfUp0,    \* history: the upstream at construction
  wfPending, \* the input blocks whose columns are still in the window
  wfWindow, \* window_: for each focal species, the flags of the columns of the pending blocks
  wfMarks,  \* the removed mark of each of these columns, and where the next window starts
  wfBlockBuffer, \* blockBuffer_: the kept sub-blocks not yet returned
  wfTrashBuffer, \* trashBuffer_: the removed sub-blocks not yet returned
  wfRet,    \* history: the blocks its nextBlock calls returned, in order
  wfRemoved, \* history: the blocks handed out as removed blocks, in order
  wfSplits, \* history: the pieces the input blocks were split into: [from, first, last, removed, block]
  wfLast,    \* the last call: [op, ret, pulled, pre]
  gtInput,  \* GtfFeatureReader: the lines of input_, fixed at construction
  gtTerm,   \* whether the last line of input_ ends with a newline
  gtPos,    \* the number of lines getline has read from input_
  gtEof,    \* input_.eof()
  gtNextLine, \* nextLine_: the line the next feature is parsed from, empty at the end
  gtRet,    \* history: what its nextFeature calls returned or threw, in order
  gtLast    \* the last call: [pre, ret]

seqVars   == <<mseq, mlast, mcoord>>
blockVars == <<blk, blast>>
sizeVars  == <<szf, szUp, szUp0, szRet, szDel, szLog, szLast>>
syncVars  == <<syP, syS, syP0, syS0, syPulls, syRet, syDel, syLast>>
outVars   == <<ouf, ouUp, ouUp0, ouRet, ouSink, ouLast>>
mergeVars == <<mgf, mgIn, mgUp, mgUp0, mgRet, mgRuns, mgMerges>>
trashVars == <<taSrc, taSrc0, taRet, taLast>>
sfiltVars == <<sff, sfUp, sfUp0, sfRet, sfDel, sfLast>>
fgapVars == <<fgf, fgUp, fgUp0, fgRet, fgFrom, fgDel, fgLast>>
winVars == <<wff, wfUp, wfUp0, wfPending, wfWindow, wfMarks, wfBlockBuffer, wfTrashBuffer, wfRet, wfRemoved, wfSplits, wfLast>>
gtfVars == <<gtInput, gtTerm, gtPos, gtEof, gtNextLine, gtRet, gtLast>>
vars == <<obj, seqVars, blockVars, sizeVars, syncVars, outVars, mergeVars, trashVars, sfiltVars, fgapVars, winVars, gtfVars>>

-----------------------------------------------------------------------------
(* Bounds of the model. *)
MaxLen    == 2    \* longest MafSequence content the sequence actions build
MaxBegin  == 2    \* largest begin given to a constructor or to setStart
MaxBlocks == 3    \* longest upstream of a pass-through stage
MaxCols   == 2    \* widest block of a pass-through stage's upstream
MaxMerge  == 3    \* longest upstream of the block merger
MaxSeqs   == 2    \* most sequences added to the MafBlock under construction
MaxEndCalls == 2  \* most nextBlock calls made on a stage beyond its upstream's length
MaxWinBlocks == 2 \* longest upstream of the windowed filter
MaxLines  == 3    \* most lines of a GtfFeatureReader's input

\* Results are records, so that any two of them can be compared.
NULL == [null |-> TRUE]            \* the null pointer: no block, end of stream
EXC  == [exception |-> TRUE]       \* a call that threw bpp::Exception
Value(n) == [value |-> n]          \* an unsigned int a call returned
UINT_WRAP == [uintMax |-> TRUE]    \* the unsigned value 0 - 1

GAP == "-"
Symbols == {"A", GAP}

RECURSIVE SeqsUpTo(_, _)
SeqsUpTo(S, n) ==
  IF n = 0 THEN {<<>>}
  ELSE LET shorter == SeqsUpTo(S, n - 1)
       IN  shorter \cup {Append(s, x) : s \in {t \in shorter : Len(t) = n - 1}, x \in S}

RECURSIVE Repeat(_, _)
Repeat(x, n) == IF n = 0 THEN <<>> ELSE <<x>> \o Repeat(x, n - 1)

-----------------------------------------------------------------------------
(* MafSequence *)

\* SequenceTools::SequenceTools_getNumberOfSites: the positions that are not gaps.
RECURSIVE SequenceTools_getNumberOfSites(_)
SequenceTools_getNumberOfSites(content) ==
  IF content = <<>> THEN 0
  ELSE (IF Head(content) = GAP THEN 0 ELSE 1) + SequenceTools_getNumberOfSites(Tail(content))

\* name.find("."): the first index of "." in name, or 0 for npos.
RECURSIVE FindDot(_, _)
FindDot(name, i) ==
  IF i > Len(name) THEN 0
  ELSE IF name[i] = "." THEN i ELSE FindDot(name, i + 1)

\* The species_/chromosome_ split both constructors make.
SplitName(name, s) ==
  LET pos == FindDot(name, 1)
  IN  IF pos # 0
      THEN [s EXCEPT !.chromosome_ = SubSeq(name, pos + 1, Len(name)),
                     !.species_    = SubSeq(name, 1, pos - 1)]
      ELSE s

\* MafSequence(name, sequence)
MafSequence2(name, sequence) ==
  SplitName(name,
    [name |-> name, content |-> sequence, hasCoordinates_ |-> FALSE, begin_ |-> 0,
     species_ |-> <<>>, chromosome_ |-> <<>>, strand_ |-> "0",
     size_ |-> SequenceTools_getNumberOfSites(sequence), srcSize_ |-> 0])

\* MafSequence(name, sequence, begin, strand, srcSize)
MafSequence5(name, sequence, begin, strand, srcSize) ==
  SplitName(name,
    [name |-> name, content |-> sequence, hasCoordinates_ |-> (begin > 0), begin_ |-> begin,
     species_ |-> <<>>, chromosome_ |-> <<>>, strand_ |-> strand,
     size_ |-> SequenceTools_getNumberOfSites(sequence), srcSize_ |-> srcSize])

removeCoordinates_keepFlag(s) == [s EXCEPT !.begin_ = 0]
removeCoordinates(s) == [s EXCEPT !.hasCoordinates_ = FALSE, !.begin_ = 0]

setStart(s, begin) == [s EXCEPT !.begin_ = begin, !.hasCoordinates_ = TRUE]

start_unchecked(s) == Value(s.begin_)
start(s) == IF s.hasCoordinates_ THEN Value(s.begin_) ELSE EXC

\* A variant that counts the columns, gaps included.
stop_byColumns(s) ==
  IF s.hasCoordinates_
  THEN (IF s.begin_ + Len(s.content) = 0 THEN UINT_WRAP
        ELSE Value(s.begin_ + Len(s.content) - 1))
  ELSE EXC

\* begin_ + size_ - 1 in unsigned arithmetic
stop(s) ==
  IF s.hasCoordinates_
  THEN (IF s.begin_ + s.size_ = 0 THEN UINT_WRAP ELSE Value(s.begin_ + s.size_ - 1))
  ELSE EXC

\* The listener hooks: what each does to the sequence once its content changed.
afterSequenceChanged_stale(s) == s
afterSequenceChanged(s)     == [s EXCEPT !.size_ = SequenceTools_getNumberOfSites(s.content)]
afterSequenceInserted(s)    == [s EXCEPT !.size_ = SequenceTools_getNumberOfSites(s.content)]
afterSequenceDeleted(s)     == [s EXCEPT !.size_ = SequenceTools_getNumberOfSites(s.content)]
afterSequenceSubstituted(s) == s

\* The content mutators of the underlying editable symbol list.
InsertAt(c, pos, x) == SubSeq(c, 1, pos - 1) \o <<x>> \o SubSeq(c, pos, Len(c))
DeleteAt(c, pos)    == SubSeq(c, 1, pos - 1) \o SubSeq(c, pos + 1, Len(c))
SubstAt(c, pos, x)  == [c EXCEPT ![pos] = x]

NamePool == { <<"h", ".", "c">>, <<"x">> }
Strands  == {"+", "-"}
Contents == SeqsUpTo(Symbols, MaxLen)

IdleSeq   == mseq = NULL /\ mlast = NULL /\ mcoord = NULL
IdleBlock == blk = NULL /\ blast = NULL
IdleSize  == /\ szf = NULL /\ szUp = <<>> /\ szUp0 = <<>>
             /\ szRet = <<>> /\ szDel = <<>> /\ szLog = <<>> /\ szLast = NULL
IdleSync  == /\ syP = <<>> /\ syS = <<>> /\ syP0 = <<>> /\ syS0 = <<>>
             /\ syPulls = <<>> /\ syRet = <<>> /\ syDel = <<>> /\ syLast = NULL
IdleOut   == /\ ouf = NULL /\ ouUp = <<>> /\ ouUp0 = <<>>
             /\ ouRet = <<>> /\ ouSink = <<>> /\ ouLast = NULL
IdleMerge == /\ mgf = NULL /\ mgIn = NULL /\ mgUp = <<>> /\ mgUp0 = <<>>
             /\ mgRet = <<>> /\ mgRuns = <<>> /\ mgMerges = <<>>
IdleWin   == /\ wff = NULL /\ wfUp = <<>> /\ wfUp0 = <<>> /\ wfPending = <<>>
             /\ wfWindow = <<>> /\ wfMarks = NULL /\ wfBlockBuffer = <<>>
             /\ wfTrashBuffer = <<>> /\ wfRet = <<>> /\ wfRemoved = <<>>
             /\ wfSplits = <<>> /\ wfLast = NULL
IdleTrash == taSrc = <<>> /\ taSrc0 = <<>> /\ taRet = <<>> /\ taLast = NULL
IdleFGap  == /\ fgf = NULL /\ fgUp = <<>> /\ fgUp0 = <<>> /\ fgRet = <<>>
             /\ fgFrom = <<>> /\ fgDel = <<>> /\ fgLast = NULL
IdleSFilt == /\ sff = NULL /\ sfUp = <<>> /\ sfUp0 = <<>>
             /\ sfRet = <<>> /\ sfDel = <<>> /\ sfLast = NULL
IdleGtf   == /\ gtInput = <<>> /\ gtTerm = TRUE /\ gtPos = 0 /\ gtEof = FALSE
             /\ gtNextLine = <<>> /\ gtRet = <<>> /\ gtLast = NULL

InitSeq ==
  /\ obj = "MafSequence"
  /\ \E name \in NamePool, c \in Contents :
       \/ /\ mseq = MafSequence2(name, c)
          /\ mcoord = [ev |-> "ctor2", begin |-> 0]
       \/ \E b \in 0..MaxBegin, st \in Strands :
            /\ mseq = MafSequence5(name, c, b, st, 9)
            /\ mcoord = [ev |-> "ctor5", begin |-> b]
  /\ mlast = [op |-> "new", ret |-> NULL, pre |-> NULL]
  /\ IdleBlock /\ IdleSize /\ IdleSync /\ IdleOut /\ IdleMerge /\ IdleTrash /\ IdleSFilt /\ IdleFGap /\ IdleWin /\ IdleGtf

SeqFrame == UNCHANGED <<obj, blockVars, sizeVars, syncVars, outVars, mergeVars, trashVars, sfiltVars, fgapVars, winVars, gtfVars>>

\* setContent: an edition of the whole content
SeqSetContent ==
  /\ obj = "MafSequence"
  /\ \E c \in Contents :
       mseq' = afterSequenceChanged([mseq EXCEPT !.content = c])
  /\ mlast' = [op |-> "setContent", ret |-> NULL, pre |-> mseq]
  /\ UNCHANGED mcoord /\ SeqFrame

\* addElement(pos, c): an insertion
SeqAddElement ==
  /\ obj = "MafSequence"
  /\ Len(mseq.content) < MaxLen
  /\ \E pos \in 1..(Len(mseq.content) + 1), x \in Symbols :
       mseq' = afterSequenceInserted([mseq EXCEPT !.content = InsertAt(@, pos, x)])
  /\ mlast' = [op |-> "addElement", ret |-> NULL, pre |-> mseq]
  /\ UNCHANGED mcoord /\ SeqFrame

\* deleteElement(pos): a deletion
SeqDeleteElement ==
  /\ obj = "MafSequence"
  /\ \E pos \in 1..Len(mseq.content) :
       mseq' = afterSequenceDeleted([mseq EXCEPT !.content = DeleteAt(@, pos)])
  /\ mlast' = [op |-> "deleteElement", ret |-> NULL, pre |-> mseq]
  /\ UNCHANGED mcoord /\ SeqFrame

\* setElement(pos, c): a substitution
SeqSetElement ==
  /\ obj = "MafSequence"
  /\ \E pos \in 1..Len(mseq.content), x \in Symbols :
       mseq' = afterSequenceSubstituted([mseq EXCEPT !.content = SubstAt(@, pos, x)])
  /\ mlast' = [op |-> "setElement", ret |-> NULL, pre |-> mseq]
  /\ UNCHANGED mcoord /\ SeqFrame

SeqStart ==
  /\ obj = "MafSequence"
  /\ mlast' = [op |-> "start", ret |-> start(mseq), pre |-> mseq]
  /\ UNCHANGED <<mseq, mcoord>> /\ SeqFrame

SeqStop ==
  /\ obj = "MafSequence"
  /\ mlast' = [op |-> "stop", ret |-> stop(mseq), pre |-> mseq]
  /\ UNCHANGED <<mseq, mcoord>> /\ SeqFrame

SeqSetStart ==
  /\ obj = "MafSequence"
  /\ \E b \in 0..MaxBegin :
       /\ mseq' = setStart(mseq, b)
       /\ mlast' = [op |-> "setStart", ret |-> NULL, pre |-> mseq]
       /\ mcoord' = [ev |-> "setStart", begin |-> b]
  /\ SeqFrame

SeqRemoveCoordinates ==
  /\ obj = "MafSequence"
  /\ mseq' = removeCoordinates(mseq)
  /\ mlast' = [op |-> "removeCoordinates", ret |-> NULL, pre |-> mseq]
  /\ mcoord' = [ev |-> "removeCoordinates", begin |-> 0]
  /\ SeqFrame

NextSeq ==
  \/ SeqSetContent \/ SeqAddElement \/ SeqDeleteElement \/ SeqSetElement
  \/ SeqStart \/ SeqStop \/ SeqSetStart \/ SeqRemoveCoordinates

SpecSeq == InitSeq /\ [][NextSeq]_vars


\* C2: after any sequence of content mutations (edition, insertion, deletion,
\* substitution) getGenomicSize() is the number of non-gap positions of the content.
C2_GenomicSizeNeverStale ==
  obj = "MafSequence" => mseq.size_ = SequenceTools_getNumberOfSites(mseq.content)

\* C7: start() and stop() throw on a sequence whose coordinates were never set or
\* were removed, and leave it unchanged; after setStart(b) both succeed, start() = b.
C7_CoordinateQueries ==
  (obj = "MafSequence" /\ mlast.op \in {"start", "stop"}) =>
    /\ mseq = mlast.pre
    /\ mcoord.ev \in {"ctor2", "removeCoordinates"} => mlast.ret = EXC
    /\ mcoord.ev = "setStart" =>
         /\ mlast.ret # EXC
         /\ mlast.op = "start" => mlast.ret = Value(mcoord.begin)

C7_Witness ==
  /\ obj = "MafSequence"
  /\ mlast.op = "stop" /\ mlast.ret = EXC
  /\ mcoord.ev = "removeCoordinates"
  /\ mlast.pre.name = <<"h", ".", "c">> /\ mlast.pre.srcSize_ = 9

\* C22, as claimed: a sequence built by MafSequence(name, sequence, begin, strand,
\* srcSize) has coordinates and start() = begin for every begin from 0 on, as has a
\* sequence on which setStart(begin) was called.
C22_ConstructorSetsCoordinates ==
  (obj = "MafSequence" /\ mcoord.ev \in {"ctor5", "setStart"}) =>
    /\ mseq.hasCoordinates_
    /\ start(mseq) = Value(mcoord.begin)

-----------------------------------------------------------------------------
(* MafBlock *)

\* A score (a double) as a fraction in lowest terms.
RECURSIVE GCD(_, _)
GCD(a, b) == IF b = 0 THEN a ELSE GCD(b, a % b)
Abs(a) == IF a < 0 THEN -a ELSE a
Rat(num, den) ==
  LET g == GCD(Abs(num), den)
  IN  [num |-> num \div g, den |-> den \div g]

\* MafBlock(): score_(-1), pass_(0), an empty alignment
MafBlock == [score_ |-> Rat(-1, 1), pass_ |-> 0, alignment_ |-> <<>>]

setScore(b, score) == [b EXCEPT !.score_ = score]
setPass(b, pass)   == [b EXCEPT !.pass_ = pass]

getNumberOfSequences(b) == Len(b.alignment_)

\* A variant that leaves out the last column.
getNumberOfSites_butLast(b) ==
  IF b.alignment_ = <<>> THEN 0 ELSE Len(b.alignment_[1].content) - 1

\* AlignedSequenceContainer::getNumberOfSites: the column count of the alignment
getNumberOfSites(b) ==
  IF b.alignment_ = <<>> THEN 0 ELSE Len(b.alignment_[1].content)

\* AlignedSequenceContainer::addSequence(sequence, checkName): a sequence whose
\* length disagrees with the column count of a non-empty alignment is refused.
ContainerAddSequence(alignment, sequence, checkName) ==
  IF alignment # <<>> /\ Len(sequence.content) # Len(alignment[1].content)
  THEN [threw |-> TRUE, alignment |-> alignment]
  ELSE IF checkName /\ \E i \in DOMAIN alignment : alignment[i].name = sequence.name
  THEN [threw |-> TRUE, alignment |-> alignment]
  ELSE [threw |-> FALSE, alignment |-> Append(alignment, sequence)]

addSequence_unchecked(b, sequence) ==
  [b EXCEPT !.alignment_ = Append(@, sequence)]

\* MafBlock::addSequence: the block after the call, or EXC when the call threw
addSequence(b, sequence) ==
  LET a == ContainerAddSequence(b.alignment_, sequence, FALSE)
  IN  IF a.threw THEN EXC ELSE [b EXCEPT !.alignment_ = a.alignment]

removeCoordinatesFromSequence(b, i) ==
  [b EXCEPT !.alignment_[i] = removeCoordinates(@)]

\* Every sequence of the block has the same number of columns.
Aligned(b) ==
  \A i, j \in DOMAIN b.alignment_ :
    Len(b.alignment_[i].content) = Len(b.alignment_[j].content)

InitBlock ==
  /\ obj = "MafBlock"
  /\ blk = MafBlock
  /\ blast = [op |-> "new", ret |-> NULL, pre |-> NULL, arg |-> NULL]
  /\ IdleSeq /\ IdleSize /\ IdleSync /\ IdleOut /\ IdleMerge /\ IdleTrash /\ IdleSFilt /\ IdleFGap /\ IdleWin /\ IdleGtf

BlockFrame == UNCHANGED <<obj, seqVars, sizeVars, syncVars, outVars, mergeVars, trashVars, sfiltVars, fgapVars, winVars, gtfVars>>

BlockAddSequence ==
  /\ obj = "MafBlock"
  /\ getNumberOfSequences(blk) < MaxSeqs
  /\ \E name \in NamePool, c \in Contents, b \in {0, MaxBegin} :
       LET s == MafSequence5(name, c, b, "+", 9)
           r == addSequence(blk, s)
       IN  /\ blk' = IF r = EXC THEN blk ELSE r
           /\ blast' = [op |-> "addSequence", ret |-> IF r = EXC THEN EXC ELSE NULL,
                        pre |-> blk, arg |-> s]
  /\ BlockFrame

BlockRemoveCoordinates ==
  /\ obj = "MafBlock"
  /\ \E i \in 1..getNumberOfSequences(blk) :
       /\ blk' = removeCoordinatesFromSequence(blk, i)
       /\ blast' = [op |-> "removeCoordinatesFromSequence", ret |-> NULL,
                    pre |-> blk, arg |-> [index |-> i]]
  /\ BlockFrame

NextBlock == BlockAddSequence \/ BlockRemoveCoordinates

SpecBlock == InitBlock /\ [][NextBlock]_vars

-----------------------------------------------------------------------------
(* The upstream of a pass-through stage: an in-memory list of blocks. *)

\* A block of n columns as a reader hands it over; its pass tells the blocks apart.
StageBlock(n, score) ==
  LET b0 == setScore(MafBlock, Rat(score, 1))
      b1 == addSequence(b0, MafSequence5(<<"h", ".", "c">>, Repeat("A", n), 1, "+", 9))
  IN  addSequence(b1, MafSequence2(<<"x">>, Repeat(GAP, n)))

Tagged(l) == [i \in DOMAIN l |-> setPass(l[i], i)]

PrimaryLists   == {Tagged(l) : l \in SeqsUpTo({StageBlock(n, n) : n \in 0..MaxCols}, MaxBlocks)}
SecondaryLists == {Tagged(l) : l \in SeqsUpTo({StageBlock(1, 7)}, MaxBlocks)}

\* The k-th pull of an upstream that held list l0: a block, then end for ever.
Pulled(l0, k) == IF k <= Len(l0) THEN l0[k] ELSE NULL

\* In a call's record, the result of a pull the call did not make.
NotPulled == [skipped |-> TRUE]

\* An upstream may also hold a failure: the pull that reaches it throws exception i.
Thrown(i) == [exception |-> TRUE, what |-> i]
IsThrown(x) == "exception" \in DOMAIN x

\* The lists of l with one position replaced by a failure.
WithFailure(lists) ==
  UNION {{[l EXCEPT ![i] = Thrown(i)] : i \in DOMAIN l} : l \in lists}

\* What is left of an upstream after one pull.
Rest(l) == IF l = <<>> THEN <<>> ELSE Tail(l)

-----------------------------------------------------------------------------
(* BlockSizeMafIterator *)

SizeTest_inclusive(block, minSize) == getNumberOfSites(block) <= minSize
\* test = (block->getNumberOfSites() < minSize_)
SizeTest(block, minSize) == getNumberOfSites(block) < minSize

SizeLogLine(block) == <<"BLOCK SIZE FILTER: block with size ", getNumberOfSites(block), " was discarded.">>

\* A variant that gives up at the first block it discards.
SizeCall_stopsAtDiscard(f, up, del, log, pulled) ==
  IF up = <<>>
  THEN [ret |-> NULL, up |-> up, del |-> del, log |-> log, pulled |-> Append(pulled, NULL)]
  ELSE LET block == Head(up)
       IN  IF IsThrown(block) \/ ~SizeTest(block, f.minSize_)
           THEN [ret |-> block, up |-> Tail(up), del |-> del, log |-> log,
                 pulled |-> Append(pulled, block)]
           ELSE [ret |-> NULL, up |-> Tail(up), del |-> Append(del, block),
                 log |-> IF f.logstream_ THEN Append(log, SizeLogLine(block)) ELSE log,
                 pulled |-> Append(pulled, block)]

\* BlockSizeMafIterator::nextBlock on a filter f with upstream up: the result (a block,
\* end, or the exception a pull threw), the upstream left, the blocks deleted, the
\* lines logged and what each pull gave.
RECURSIVE SizeCall(_, _, _, _, _)
SizeCall(f, up, del, log, pulled) ==
  IF up = <<>>
  THEN [ret |-> NULL, up |-> up, del |-> del, log |-> log, pulled |-> Append(pulled, NULL)]
  ELSE LET block == Head(up)
       IN  IF IsThrown(block)
           THEN [ret |-> block, up |-> Tail(up), del |-> del, log |-> log,
                 pulled |-> Append(pulled, block)]
           ELSE IF SizeTest(block, f.minSize_)
           THEN SizeCall(f, Tail(up), Append(del, block),
                         IF f.logstream_ THEN Append(log, SizeLogLine(block)) ELSE log,
                         Append(pulled, block))
           ELSE [ret |-> block, up |-> Tail(up), del |-> del, log |-> log,
                 pulled |-> Append(pulled, block)]

SizeConfigs == [minSize_ : 0..(MaxCols + 1), verbose_ : {TRUE}, logstream_ : {TRUE}]

\* After BlockSizeMafIterator(iterator, minSize): verbose, logging to the message stream.
InitSize ==
  /\ obj = "BlockSizeMafIterator"
  /\ szf \in SizeConfigs
  /\ szUp0 \in PrimaryLists
  /\ szUp = szUp0
  /\ szRet = <<>> /\ szDel = <<>> /\ szLog = <<>> /\ szLast = NULL
  /\ IdleSeq /\ IdleBlock /\ IdleSync /\ IdleOut /\ IdleMerge /\ IdleTrash /\ IdleSFilt /\ IdleFGap /\ IdleWin /\ IdleGtf

SizeFrame == UNCHANGED <<obj, seqVars, blockVars, syncVars, outVars, mergeVars, trashVars, sfiltVars, fgapVars, winVars, gtfVars>>

SizeNextBlock ==
  /\ obj = "BlockSizeMafIterator"
  /\ Len(szRet) < Len(szUp0) + MaxEndCalls
  /\ LET r == SizeCall(szf, szUp, <<>>, <<>>, <<>>)
     IN  /\ szUp' = r.up
         /\ szRet' = Append(szRet, r.ret)
         /\ szDel' = szDel \o r.del
         /\ szLog' = szLog \o r.log
         /\ szLast' = [verbose |-> szf.verbose_, logstream |-> szf.logstream_,
                       pulled |-> r.pulled, ret |-> r.ret, del |-> r.del, log |-> r.log]
  /\ UNCHANGED <<szf, szUp0>> /\ SizeFrame

SizeSetLogStream ==
  /\ obj = "BlockSizeMafIterator"
  /\ \E present \in BOOLEAN : szf' = [szf EXCEPT !.logstream_ = present]
  /\ UNCHANGED <<szUp, szUp0, szRet, szDel, szLog, szLast>> /\ SizeFrame

SizeVerbose ==
  /\ obj = "BlockSizeMafIterator"
  /\ \E yn \in BOOLEAN : szf' = [szf EXCEPT !.verbose_ = yn]
  /\ UNCHANGED <<szUp, szUp0, szRet, szDel, szLog, szLast>> /\ SizeFrame

NextSize == SizeNextBlock \/ SizeSetLogStream \/ SizeVerbose

SpecSize == InitSize /\ [][NextSize]_vars

\* C1: every block BlockSizeMafIterator::nextBlock returns has at least minSize
\* columns, and every block it discards has fewer.
C1_SizeFilterThreshold ==
  obj = "BlockSizeMafIterator" =>
    /\ \A i \in DOMAIN szRet :
         szRet[i] # NULL => getNumberOfSites(szRet[i]) >= szf.minSize_
    /\ \A i \in DOMAIN szDel : getNumberOfSites(szDel[i]) < szf.minSize_

C1_Witness ==
  /\ obj = "BlockSizeMafIterator"
  /\ szDel # <<>>
  /\ \E i \in DOMAIN szRet :
       szRet[i] # NULL /\ getNumberOfSites(szRet[i]) = szf.minSize_

\* C14, as claimed: the size filter logs a discarded block only if verbose is enabled:
\* a nextBlock call made after verbose(false) writes no line, and a call made with
\* verbose enabled and a log stream present writes one line per block it discards.
C14_LogsOnlyIfVerbose ==
  (obj = "BlockSizeMafIterator" /\ szLast # NULL) =>
    /\ ~szLast.verbose => szLast.log = <<>>
    /\ (szLast.verbose /\ szLast.logstream) => Len(szLast.log) = Len(szLast.del)

\* The blocks of l with at least minSize columns, in order.
AtLeast(l, minSize) == SelectSeq(l, LAMBDA b : getNumberOfSites(b) >= minSize)

\* The blocks among the results l, in order.
BlocksOf(l) == SelectSeq(l, LAMBDA r : r # NULL)

\* C16: the blocks the size filter returns are the upstream blocks with at least
\* minSize columns, in upstream order; a call consumes the upstream up to and including
\* the first such block, and returns end exactly when the upstream ends before one.
C16_SizeFilterIsRestriction ==
  obj = "BlockSizeMafIterator" =>
    LET q    == AtLeast(szUp0, szf.minSize_)
        got  == BlocksOf(szRet)
        used == Len(szUp0) - Len(szUp)
    IN  /\ Len(got) <= Len(q) /\ got = SubSeq(q, 1, Len(got))
        /\ AtLeast(SubSeq(szUp0, 1, used), szf.minSize_) = got
        /\ szLast # NULL =>
             LET n == Len(szLast.pulled)
             IN  /\ \A i \in 1..(n - 1) :
                      /\ szLast.pulled[i] # NULL
                      /\ getNumberOfSites(szLast.pulled[i]) < szf.minSize_
                 /\ szLast.ret = szLast.pulled[n]
                 /\ szLast.ret # NULL => szLast.ret = szUp0[used]
                 /\ szLast.ret = NULL => (szUp = <<>> /\ got = q)

C16_Witness ==
  /\ obj = "BlockSizeMafIterator"
  /\ Len(szRet) = 2 /\ szRet[1] # NULL /\ szRet[2] = NULL
  /\ Len(szUp0) = 3 /\ Len(szDel) = 2
  /\ Len(szLast.pulled) = 2

-----------------------------------------------------------------------------
(* MafIteratorSynchronizer *)

\* A variant that leaves the secondary alone once the primary has ended.
SyncCall_skipAtEnd(p, s) ==
  LET block == Pulled(p, 1)
      secondBlock == IF block = NULL THEN NULL ELSE Pulled(s, 1)
  IN  [ret |-> block, p |-> Rest(p) , s |-> IF block = NULL THEN s ELSE Rest(s),
       pulls |-> IF block = NULL THEN <<"P">> ELSE <<"P", "S">>,
       first |-> block, second |-> secondBlock,
       del |-> IF secondBlock # NULL THEN <<secondBlock>> ELSE <<>>]

\* A variant that stops returning blocks once the secondary has ended.
SyncCall_truncating(p, s) ==
  LET block == Pulled(p, 1)
      secondBlock == Pulled(s, 1)
  IN  [ret |-> IF secondBlock = NULL THEN NULL ELSE block,
       p |-> Rest(p), s |-> Rest(s), pulls |-> <<"P", "S">>,
       first |-> block, second |-> secondBlock,
       del |-> IF secondBlock # NULL THEN <<secondBlock>> ELSE <<>>]

\* A variant that throws when one source ends before the other.
SyncCall_throwing(p, s) ==
  LET block == Pulled(p, 1)
      secondBlock == Pulled(s, 1)
  IN  [ret |-> IF (block = NULL) # (secondBlock = NULL) THEN EXC ELSE block,
       p |-> Rest(p), s |-> Rest(s), pulls |-> <<"P", "S">>,
       first |-> block, second |-> secondBlock,
       del |-> IF secondBlock # NULL THEN <<secondBlock>> ELSE <<>>]

\* MafIteratorSynchronizer::nextBlock with primary p and secondary s left to pull:
\* the result, the sources after the call, the pulls in the order made, what each
\* pull returned, and the blocks deleted.
SyncCall(p, s) ==
  LET block == Pulled(p, 1)
      secondBlock == Pulled(s, 1)
  IN  IF IsThrown(block)
      THEN [ret |-> block, p |-> Rest(p), s |-> s, pulls |-> <<"P">>,
            first |-> block, second |-> NotPulled, del |-> <<>>]
      ELSE IF IsThrown(secondBlock)
      THEN [ret |-> secondBlock, p |-> Rest(p), s |-> Rest(s), pulls |-> <<"P", "S">>,
            first |-> block, second |-> secondBlock, del |-> <<>>]
      ELSE [ret |-> block, p |-> Rest(p), s |-> Rest(s), pulls |-> <<"P", "S">>,
            first |-> block, second |-> secondBlock,
            del |-> IF secondBlock # NULL THEN <<secondBlock>> ELSE <<>>]

InitSync ==
  /\ obj = "MafIteratorSynchronizer"
  /\ syP0 \in PrimaryLists /\ syS0 \in SecondaryLists
  /\ syP = syP0 /\ syS = syS0
  /\ syPulls = <<>> /\ syRet = <<>> /\ syDel = <<>> /\ syLast = NULL
  /\ IdleSeq /\ IdleBlock /\ IdleSize /\ IdleOut /\ IdleMerge /\ IdleTrash /\ IdleSFilt /\ IdleFGap /\ IdleWin /\ IdleGtf

SyncFrame == UNCHANGED <<obj, seqVars, blockVars, sizeVars, outVars, mergeVars, trashVars, sfiltVars, fgapVars, winVars, gtfVars>>

SyncNextBlock ==
  /\ obj = "MafIteratorSynchronizer"
  /\ Len(syRet) < Len(syP0) + MaxEndCalls
  /\ LET r == SyncCall(syP, syS)
     IN  /\ syP' = r.p /\ syS' = r.s
         /\ syPulls' = syPulls \o r.pulls
         /\ syRet' = Append(syRet, r.ret)
         /\ syDel' = syDel \o r.del
         /\ syLast' = [first |-> r.first, second |-> r.second, ret |-> r.ret,
                       pulls |-> r.pulls, del |-> r.del, leftP |-> r.p, leftS |-> r.s]
  /\ UNCHANGED <<syP0, syS0>> /\ SyncFrame

NextSync == SyncNextBlock

SpecSync == InitSync /\ [][NextSync]_vars

\* The pulls of k complete calls: primary, secondary, primary, secondary, ...
Lockstep(k) == [i \in 1..(2 * k) |-> IF i % 2 = 1 THEN "P" ELSE "S"]

\* What is left of an upstream l0 after k pulls.
Drop(l0, k) == IF k >= Len(l0) THEN <<>> ELSE SubSeq(l0, k + 1, Len(l0))

\* C3: every MafIteratorSynchronizer::nextBlock call pulls once from the primary and
\* then once from the secondary, also when the primary returns end: after k calls
\* the pulls are P,S repeated k times and both sources have been pulled k times.
C3_SyncPullsInLockstep ==
  obj = "MafIteratorSynchronizer" =>
    /\ syPulls = Lockstep(Len(syRet))
    /\ syP = Drop(syP0, Len(syRet))
    /\ syS = Drop(syS0, Len(syRet))

C3_Witness ==
  /\ obj = "MafIteratorSynchronizer"
  /\ syLast # NULL /\ syLast.first = NULL /\ syLast.second # NULL
  /\ Len(syRet) >= 2 /\ Len(syPulls) = 2 * Len(syRet)

\* C4: with N primary blocks and M <= N secondary blocks, consecutive nextBlock calls
\* return the N primary blocks in primary order and then end.
C4_SyncReturnsPrimary ==
  (obj = "MafIteratorSynchronizer" /\ Len(syS0) <= Len(syP0)) =>
    \A i \in DOMAIN syRet : syRet[i] = Pulled(syP0, i)

C4_Witness ==
  /\ obj = "MafIteratorSynchronizer"
  /\ Len(syS0) < Len(syP0) /\ Len(syP0) >= 2
  /\ Len(syRet) = Len(syP0) + 1
  /\ syRet[Len(syRet)] = NULL /\ syRet[Len(syP0)] = syP0[Len(syP0)]

\* The last call saw one source at end while the other returned a block.
SyncDiverged ==
  /\ obj = "MafIteratorSynchronizer" /\ syLast # NULL
  /\ (syLast.first = NULL) # (syLast.second = NULL)

\* C5, as claimed: when one source returns end while the other still has blocks,
\* nextBlock signals an error instead of returning normally.
C5_DivergenceIsAnError == SyncDiverged => syLast.ret = EXC

\* C5, amended: when one source returns end while the other still has blocks,
\* nextBlock signals no error and returns the primary's result, a block or end; the
\* secondary's block, if any, is deleted.
C5_DivergenceReturnsPrimary ==
  SyncDiverged =>
    /\ syLast.ret # EXC
    /\ syLast.ret = syLast.first
    /\ syLast.second # NULL => syDel[Len(syDel)] = syLast.second

C5_Witness ==
  /\ SyncDiverged
  /\ syLast.first = NULL /\ syLast.ret = NULL
  /\ syLast.leftS # <<>>

-----------------------------------------------------------------------------
(* OutputMafIterator *)

\* writeHeader: the header of a MAF file
writeHeader == <<[line |-> "##maf"]>>

\* writeBlock: an "a" line with the score and pass, then one "s" line per sequence
writeBlock(block) ==
  <<[line |-> "a", score |-> block.score_, pass |-> block.pass_]>> \o
  [i \in DOMAIN block.alignment_ |->
     LET seq == block.alignment_[i]
     IN  [line |-> "s", name |-> seq.name,
          begin |-> IF seq.hasCoordinates_ THEN seq.begin_ ELSE 0,
          size |-> seq.size_, strand |-> seq.strand_, srcSize |-> seq.srcSize_,
          text |-> seq.content]]

\* A variant that writes whenever a sink is present, a block or not.
OutCall_alwaysWrites(f, up) ==
  LET block == Pulled(up, 1)
  IN  [ret |-> block, up |-> Rest(up), pulled |-> <<block>>,
       out |-> IF f.output_ /\ ~IsThrown(block)
               THEN (IF block # NULL THEN writeBlock(block) ELSE writeHeader)
               ELSE <<>>]

\* A variant that hands the block on with its pass cleared.
OutCall_clearsPass(f, up) ==
  LET block == Pulled(up, 1)
  IN  [ret |-> IF block # NULL /\ ~IsThrown(block) THEN setPass(block, 0) ELSE block,
       up |-> Rest(up), pulled |-> <<block>>,
       out |-> IF f.output_ /\ block # NULL /\ ~IsThrown(block)
               THEN writeBlock(block) ELSE <<>>]

\* A variant that turns a failed pull into the end of the stream.
OutCall_swallows(f, up) ==
  LET block == Pulled(up, 1)
  IN  IF IsThrown(block)
      THEN [ret |-> NULL, up |-> Rest(up), pulled |-> <<block>>, out |-> <<>>]
      ELSE [ret |-> block, up |-> Rest(up), pulled |-> <<block>>,
            out |-> IF f.output_ /\ block # NULL THEN writeBlock(block) ELSE <<>>]

\* OutputMafIterator::nextBlock on an adapter f with upstream up: the result (a block,
\* end, or the exception the pull threw), the upstream left, what the pull gave and
\* what is written to the sink.
OutCall(f, up) ==
  LET block == Pulled(up, 1)
  IN  IF IsThrown(block)
      THEN [ret |-> block, up |-> Rest(up), pulled |-> <<block>>, out |-> <<>>]
      ELSE [ret |-> block, up |-> Rest(up), pulled |-> <<block>>,
            out |-> IF f.output_ /\ block # NULL THEN writeBlock(block) ELSE <<>>]

\* After OutputMafIterator(iterator, out, mask): the header is written if out is set.
InitOut ==
  /\ obj = "OutputMafIterator"
  /\ \E present \in BOOLEAN, mask \in BOOLEAN :
       /\ ouf = [output_ |-> present, mask_ |-> mask]
       /\ ouSink = IF present THEN writeHeader ELSE <<>>
  /\ ouUp0 \in PrimaryLists
  /\ ouUp = ouUp0
  /\ ouRet = <<>> /\ ouLast = NULL
  /\ IdleSeq /\ IdleBlock /\ IdleSize /\ IdleSync /\ IdleMerge /\ IdleTrash /\ IdleSFilt /\ IdleFGap /\ IdleWin /\ IdleGtf

OutFrame == UNCHANGED <<obj, seqVars, blockVars, sizeVars, syncVars, mergeVars, trashVars, sfiltVars, fgapVars, winVars, gtfVars>>

OutNextBlock ==
  /\ obj = "OutputMafIterator"
  /\ Len(ouRet) < Len(ouUp0) + MaxEndCalls
  /\ LET r == OutCall(ouf, ouUp)
     IN  /\ ouUp' = r.up
         /\ ouRet' = Append(ouRet, r.ret)
         /\ ouSink' = ouSink \o r.out
         /\ ouLast' = [pulled |-> r.pulled, ret |-> r.ret, wrote |-> r.out]
  /\ UNCHANGED <<ouf, ouUp0>> /\ OutFrame

NextOut == OutNextBlock

SpecOut == InitOut /\ [][NextOut]_vars

\* C6: OutputMafIterator::nextBlock returns the block (or end) it pulled from upstream
\* with content, score and pass unchanged, with or without a sink; it writes the block
\* to the sink if and only if a sink is present and the result is a block.
C6_OutputPassThrough ==
  obj = "OutputMafIterator" =>
    /\ \A i \in DOMAIN ouRet : ouRet[i] = Pulled(ouUp0, i)
    /\ ouLast # NULL =>
         (ouLast.wrote # <<>>) = (ouf.output_ /\ ouLast.ret # NULL)
    /\ ouLast # NULL /\ ouLast.wrote # <<>> => ouLast.wrote = writeBlock(ouLast.ret)

C6_Witness ==
  /\ obj = "OutputMafIterator"
  /\ ouf.output_
  /\ \E i \in DOMAIN ouRet : ouRet[i] # NULL /\ getNumberOfSites(ouRet[i]) = 2
  /\ ouLast # NULL /\ ouLast.ret = NULL /\ ouLast.wrote = <<>>

\* What writeBlock writes for the blocks of l, one after the other.
RECURSIVE Written(_)
Written(l) == IF l = <<>> THEN <<>> ELSE writeBlock(Head(l)) \o Written(Tail(l))

\* C17: an OutputMafIterator with a sink writes the header once, at construction and
\* before any block, and then exactly the blocks its nextBlock calls returned, in
\* order, each once; a call that returns end writes nothing, and without a sink
\* nothing is ever written.
C17_SinkHoldsHeaderThenBlocks ==
  obj = "OutputMafIterator" =>
    ouSink = IF ouf.output_ THEN writeHeader \o Written(BlocksOf(ouRet)) ELSE <<>>

C17_Witness ==
  /\ obj = "OutputMafIterator"
  /\ ouf.output_
  /\ Len(ouRet) = 4 /\ ouRet[1] # NULL /\ ouRet[2] # NULL
  /\ ouRet[3] = NULL /\ ouRet[4] = NULL
  /\ ouSink = writeHeader \o writeBlock(ouUp0[1]) \o writeBlock(ouUp0[2])

-----------------------------------------------------------------------------
(* BlockMergerMafIterator *)

UNKNOWN == "N"    \* the unknown character of the DNA alphabet

\* The index of the first sequence of block b with the given species, 0 if none
\* (MafBlock::getSequenceForSpecies).
RECURSIVE FindSpecies_skipsFirst(_, _, _)
FindSpecies_skipsFirst(b, species, i) ==
  IF i >= Len(b.alignment_) THEN 0
  ELSE IF b.alignment_[i + 1].species_ = species THEN i + 1
  ELSE FindSpecies_skipsFirst(b, species, i + 1)

RECURSIVE FindSpecies(_, _, _)
FindSpecies(b, species, i) ==
  IF i > Len(b.alignment_) THEN 0
  ELSE IF b.alignment_[i].species_ = species THEN i
  ELSE FindSpecies(b, species, i + 1)

hasSpecies(b, species) == FindSpecies(b, species, 1) # 0
getSequenceForSpecies(b, species) == b.alignment_[FindSpecies(b, species, 1)]

InList(l, x) == \E i \in DOMAIN l : l[i] = x

\* The anchor species that have a sequence in both blocks.
SharedAnchors(f, b1, b2) ==
  {i \in DOMAIN f.species_ : hasSpecies(b1, f.species_[i]) /\ hasSpecies(b2, f.species_[i])}

\* The columns between the end of seq1 and the start of seq2, in unsigned
\* arithmetic: a start at or before the end wraps around to a distance beyond any maxDist.
Distance(seq1, seq2) ==
  IF seq2.begin_ >= seq1.begin_ + seq1.size_
  THEN Value(seq2.begin_ - (seq1.begin_ + seq1.size_))
  ELSE UINT_WRAP

\* The distance of the first shared anchor, 0 when the blocks share none.
GlobalSpace(f, b1, b2) ==
  LET sh == SharedAnchors(f, b1, b2)
  IN  IF sh = {} THEN Value(0)
      ELSE LET i == CHOOSE k \in sh : \A m \in sh : k <= m
           IN  Distance(getSequenceForSpecies(b1, f.species_[i]),
                        getSequenceForSpecies(b2, f.species_[i]))

\* Whether the buffered block b1 and the candidate b2 are merged: every anchor species
\* they share is on the same chromosome (not an ignored one) and strand in both, and
\* at one common distance of at most maxDist_.
Qualifies(f, b1, b2) ==
  \A i \in SharedAnchors(f, b1, b2) :
    LET seq1 == getSequenceForSpecies(b1, f.species_[i])
        seq2 == getSequenceForSpecies(b2, f.species_[i])
        d    == Distance(seq1, seq2)
    IN  /\ seq1.chromosome_ = seq2.chromosome_
        /\ ~InList(f.ignoreChrs_, seq1.chromosome_)
        /\ seq1.strand_ = seq2.strand_
        /\ d # UINT_WRAP /\ d.value <= f.maxDist_
        /\ d = GlobalSpace(f, b1, b2)

\* The species of b1 in order, then those of b2 that b1 lacks.
RECURSIVE SpeciesOf(_, _, _)
SpeciesOf(b, i, acc) ==
  IF i > Len(b.alignment_) THEN acc
  ELSE SpeciesOf(b, i + 1,
         IF InList(acc, b.alignment_[i].species_) THEN acc
         ELSE Append(acc, b.alignment_[i].species_))

\* The content of a sequence replaced as a whole: the genomic size follows.
WithContent(seq, c) == afterSequenceChanged([seq EXCEPT !.content = c])

\* The sequence of one species in the block merged from b1 and b2 at distance d:
\* both parts with d unknown characters between them, or the one part there is,
\* padded with gaps; a species that is no anchor loses its coordinates.
MergedSequence(f, b1, b2, d, species) ==
  LET n1 == getNumberOfSites(b1)
      n2 == getNumberOfSites(b2)
      anchor == InList(f.species_, species)
      drop(s) == IF anchor THEN s ELSE removeCoordinates(s)
  IN  IF hasSpecies(b1, species) /\ hasSpecies(b2, species)
      THEN LET seq1 == getSequenceForSpecies(b1, species)
               seq2 == getSequenceForSpecies(b2, species)
           IN  drop(WithContent(seq1, seq1.content \o Repeat(UNKNOWN, d) \o seq2.content))
      ELSE IF hasSpecies(b1, species)
      THEN LET seq1 == getSequenceForSpecies(b1, species)
           IN  drop(WithContent(seq1, seq1.content \o Repeat(GAP, d + n2)))
      ELSE LET seq2 == getSequenceForSpecies(b2, species)
           IN  drop(WithContent(seq2, Repeat(GAP, n1 + d) \o seq2.content))

\* The scores averaged, weighted by the blocks' column counts.
MergedScore(b1, b2) ==
  LET n1 == getNumberOfSites(b1)
      n2 == getNumberOfSites(b2)
      s1 == b1.score_
      s2 == b2.score_
  IN  IF n1 + n2 = 0 THEN s1
      ELSE Rat(s1.num * n1 * s2.den + s2.num * n2 * s1.den, s1.den * s2.den * (n1 + n2))

RECURSIVE AddAll(_, _, _)
AddAll(b, seqs, i) ==
  IF i > Len(seqs) \/ b = EXC THEN b
  ELSE AddAll(addSequence(b, seqs[i]), seqs, i + 1)

\* The block merged from the buffered block b1 and the candidate b2.
Merge(f, b1, b2) ==
  LET d  == GlobalSpace(f, b1, b2).value
      sp == SpeciesOf(b2, 1, SpeciesOf(b1, 1, <<>>))
      b0 == setPass(setScore(MafBlock, MergedScore(b1, b2)),
                    IF b1.pass_ = b2.pass_ THEN b1.pass_ ELSE 0)
  IN  AddAll(b0, [i \in DOMAIN sp |-> MergedSequence(f, b1, b2, d, sp[i])], 1)

\* BlockMergerMafIterator::nextBlock, from the buffered block current on: pull and
\* merge candidates while they qualify. n counts the upstream blocks in current and
\* merges lists the merges made.
RECURSIVE MergeLoop(_, _, _, _, _)
MergeLoop(f, current, up, n, merges) ==
  LET candidate == Pulled(up, 1)
  IN  IF candidate = NULL
      THEN [ret |-> current, in |-> NULL, up |-> up, n |-> n, merges |-> merges]
      ELSE IF Qualifies(f, current, candidate)
      THEN LET merged == Merge(f, current, candidate)
           IN  MergeLoop(f, merged, Rest(up), n + 1,
                         Append(merges, [buffered |-> current, candidate |-> candidate,
                                         merged |-> merged]))
      ELSE [ret |-> current, in |-> candidate, up |-> Rest(up), n |-> n, merges |-> merges]

MergeCall(f, incoming, up) ==
  IF incoming = NULL
  THEN [ret |-> NULL, in |-> NULL, up |-> up, n |-> 0, merges |-> <<>>]
  ELSE MergeLoop(f, incoming, up, 1, <<>>)

(* The merger's upstream: consecutive blocks of a human/mouse alignment, each placed
   relative to the one before it. *)
Human  == <<"h">>
Mouse  == <<"m">>

\* The human and the mouse text of a block.
MergeContents == { <<<<"A">>, <<"A">>>>, <<<<"A", GAP>>, <<GAP, "A">>>> }

\* How a block lies relative to its predecessor:
\*   contig   both species start right after their previous end
\*   spaced   both species start one position further
\*   asym     human starts right after its previous end, mouse 10 positions further
\*   chr      human is on another chromosome
\*   strand   human is on the other strand
\*   nomouse  the block has no mouse sequence
Transitions == {"contig", "spaced", "asym", "chr", "strand", "nomouse"}

HumanGap(tr) == IF tr = "spaced" THEN 1 ELSE 0
MouseGap(tr) == IF tr = "spaced" THEN 1 ELSE IF tr = "asym" THEN 10 ELSE 0

MergeSteps == [text : MergeContents, tr : Transitions]

\* The blocks the steps describe, from step i on; hs and ms are the positions right
\* after the previous human and mouse ends.
RECURSIVE BuildBlocks(_, _, _, _)
BuildBlocks(steps, i, hs, ms) ==
  IF i > Len(steps) THEN <<>>
  ELSE LET st == steps[i]
           hb == hs + HumanGap(st.tr)
           mb == ms + MouseGap(st.tr)
           h  == MafSequence5(Human \o <<".">> \o (IF st.tr = "chr" THEN <<"d">> ELSE <<"c">>),
                              st.text[1], hb, IF st.tr = "strand" THEN "-" ELSE "+", 1000)
           m  == MafSequence5(Mouse \o <<".", "e">>, st.text[2], mb, "+", 2000)
           b0 == setPass(setScore(MafBlock, Rat(i, 1)), Len(st.text[1]))
           b1 == addSequence(b0, h)
           b2 == IF st.tr = "nomouse" THEN b1 ELSE addSequence(b1, m)
       IN  <<b2>> \o BuildBlocks(steps, i + 1, hb + h.size_,
                                 IF st.tr = "nomouse" THEN ms ELSE mb + m.size_)

MergeLists ==
  {BuildBlocks(steps, 1, 100, 500) :
     steps \in {s \in SeqsUpTo(MergeSteps, MaxMerge) : s # <<>> => s[1].tr = "contig"}}

\* A variant whose constructor pulls nothing.
InitMerge_noPrefetch ==
  /\ obj = "BlockMergerMafIterator"
  /\ \E species \in {<<Human>>, <<Human, Mouse>>}, maxDist \in {0, 1, 10} :
       mgf = [species_ |-> species, maxDist_ |-> maxDist, ignoreChrs_ |-> <<>>]
  /\ mgUp0 \in MergeLists
  /\ mgIn = NULL
  /\ mgUp = mgUp0
  /\ mgRet = <<>> /\ mgRuns = <<>> /\ mgMerges = <<>>
  /\ IdleSeq /\ IdleBlock /\ IdleSize /\ IdleSync /\ IdleOut /\ IdleTrash /\ IdleSFilt /\ IdleFGap /\ IdleWin /\ IdleGtf

\* After BlockMergerMafIterator(iterator, species, maxDist): one block is pulled.
InitMerge ==
  /\ obj = "BlockMergerMafIterator"
  /\ \E species \in {<<Human>>, <<Human, Mouse>>}, maxDist \in {0, 1, 10} :
       mgf = [species_ |-> species, maxDist_ |-> maxDist, ignoreChrs_ |-> <<>>]
  /\ mgUp0 \in MergeLists
  /\ mgIn = Pulled(mgUp0, 1)
  /\ mgUp = Rest(mgUp0)
  /\ mgRet = <<>> /\ mgRuns = <<>> /\ mgMerges = <<>>
  /\ IdleSeq /\ IdleBlock /\ IdleSize /\ IdleSync /\ IdleOut /\ IdleTrash /\ IdleSFilt /\ IdleFGap /\ IdleWin /\ IdleGtf

MergeFrame == UNCHANGED <<obj, seqVars, blockVars, sizeVars, syncVars, outVars, trashVars, sfiltVars, fgapVars, winVars, gtfVars>>

MergeNextBlock ==
  /\ obj = "BlockMergerMafIterator"
  /\ Len(mgRet) < Len(mgUp0) + MaxEndCalls
  /\ LET r == MergeCall(mgf, mgIn, mgUp)
     IN  /\ mgIn' = r.in
         /\ mgUp' = r.up
         /\ mgRet' = Append(mgRet, r.ret)
         /\ mgRuns' = Append(mgRuns, r.n)
         /\ mgMerges' = mgMerges \o r.merges
  /\ UNCHANGED <<mgf, mgUp0>> /\ MergeFrame

NextMerge == MergeNextBlock

SpecMerge == InitMerge /\ [][NextMerge]_vars

RECURSIVE SumTo(_, _)
SumTo(l, i) == IF i = 0 THEN 0 ELSE l[i] + SumTo(l, i - 1)

\* The upstream indices of the blocks held by the i-th returned block.
RunStart(i) == 1 + SumTo(mgRuns, i - 1)
RunEnd(i)   == SumTo(mgRuns, i)

RECURSIVE ColumnsOf(_, _, _)
ColumnsOf(l, a, b) == IF a > b THEN 0 ELSE getNumberOfSites(l[a]) + ColumnsOf(l, a + 1, b)

\* Blocks b1 and b2 are contiguous for every anchor species: each anchor is in both,
\* on the same chromosome and strand, and starts in b2 right after its stop in b1.
Contiguous(f, b1, b2) ==
  \A k \in DOMAIN f.species_ :
    /\ hasSpecies(b1, f.species_[k]) /\ hasSpecies(b2, f.species_[k])
    /\ LET seq1 == getSequenceForSpecies(b1, f.species_[k])
           seq2 == getSequenceForSpecies(b2, f.species_[k])
       IN  /\ seq1.chromosome_ = seq2.chromosome_
           /\ seq1.strand_ = seq2.strand_
           /\ start(seq2) = Value(stop(seq1).value + 1)

Between(seq1, seq2) == start(seq2).value - stop(seq1).value - 1

\* Both blocks hold human and mouse, and the two species are at different distances.
Asymmetric(b1, b2) ==
  /\ hasSpecies(b1, Human) /\ hasSpecies(b2, Human)
  /\ hasSpecies(b1, Mouse) /\ hasSpecies(b2, Mouse)
  /\ Between(getSequenceForSpecies(b1, Human), getSequenceForSpecies(b2, Human))
       # Between(getSequenceForSpecies(b1, Mouse), getSequenceForSpecies(b2, Mouse))

\* Human, in both blocks, is on one chromosome and strand and within maxDist.
HumanQualifies(f, b1, b2) ==
  LET seq1 == getSequenceForSpecies(b1, Human)
      seq2 == getSequenceForSpecies(b2, Human)
  IN  /\ seq1.chromosome_ = seq2.chromosome_
      /\ seq1.strand_ = seq2.strand_
      /\ Between(seq1, seq2) >= 0 /\ Between(seq1, seq2) <= f.maxDist_

\* Upstream blocks j and j + 1 were returned within one block.
SameRun(j) == \E i \in DOMAIN mgRuns : RunStart(i) <= j /\ j + 1 <= RunEnd(i)

\* C10: the merger merges the buffered block with the candidate only if every anchor
\* species in both has the same chromosome, the same strand and one common distance
\* d <= maxDist. Two blocks whose anchors human and mouse are at different distances
\* are not merged; with human the only anchor they are merged when human qualifies,
\* and a species that is no anchor has no coordinates in the merged block.
C10_MergeOnlyWhenAnchorsAgree ==
  obj = "BlockMergerMafIterator" =>
    /\ \A k \in DOMAIN mgMerges :
         LET m == mgMerges[k]
             shared == {sp \in {Human, Mouse} :
                          /\ InList(mgf.species_, sp)
                          /\ hasSpecies(m.buffered, sp) /\ hasSpecies(m.candidate, sp)}
             others == {sp \in {Human, Mouse} :
                          ~InList(mgf.species_, sp) /\ hasSpecies(m.merged, sp)}
             d(sp) == Between(getSequenceForSpecies(m.buffered, sp),
                              getSequenceForSpecies(m.candidate, sp))
         IN  /\ \A sp \in shared :
                  /\ getSequenceForSpecies(m.buffered, sp).chromosome_
                       = getSequenceForSpecies(m.candidate, sp).chromosome_
                  /\ getSequenceForSpecies(m.buffered, sp).strand_
                       = getSequenceForSpecies(m.candidate, sp).strand_
                  /\ d(sp) >= 0 /\ d(sp) <= mgf.maxDist_
             /\ \A sp1, sp2 \in shared : d(sp1) = d(sp2)
             /\ \A sp \in others : ~getSequenceForSpecies(m.merged, sp).hasCoordinates_
    /\ \A j \in 1..(Len(mgUp0) - 1) :
         /\ (mgf.species_ = <<Human, Mouse>> /\ Asymmetric(mgUp0[j], mgUp0[j + 1]))
              => ~SameRun(j)
         /\ (mgf.species_ = <<Human>> /\ HumanQualifies(mgf, mgUp0[j], mgUp0[j + 1])
               /\ j + 1 <= SumTo(mgRuns, Len(mgRuns)))
              => SameRun(j)

C10_Witness ==
  /\ obj = "BlockMergerMafIterator"
  /\ mgf.species_ = <<Human>> /\ mgf.maxDist_ = 0
  /\ \E k \in DOMAIN mgMerges :
       LET m == mgMerges[k]
       IN  /\ Asymmetric(m.buffered, m.candidate)
           /\ Between(getSequenceForSpecies(m.buffered, Mouse),
                      getSequenceForSpecies(m.candidate, Mouse)) = 10
           /\ getSequenceForSpecies(m.buffered, Mouse).hasCoordinates_
           /\ ~getSequenceForSpecies(m.merged, Mouse).hasCoordinates_
           /\ \E i \in DOMAIN mgRet : mgRet[i] = m.merged

\* The content c without the unknown characters a merge put in.
Unfilled(c) == SelectSeq(c, LAMBDA x : x # UNKNOWN)

\* The human texts of the upstream blocks a to b, one after the other.
RECURSIVE HumanText(_, _, _)
HumanText(l, a, b) ==
  IF a > b THEN <<>>
  ELSE getSequenceForSpecies(l[a], Human).content \o HumanText(l, a + 1, b)

\* C19: the merger pulls exactly one upstream block at construction; every upstream
\* block is part of exactly one returned block, in upstream order; the last buffered
\* block is returned once, every later call returns end, and on an empty upstream the
\* first call returns end.
C19_EveryBlockEmittedOnce ==
  obj = "BlockMergerMafIterator" =>
    LET consumed == Len(mgUp0) - Len(mgUp)
        n == Len(mgRet)
    IN  /\ mgRet = <<>> =>
             /\ consumed = (IF mgUp0 = <<>> THEN 0 ELSE 1)
             /\ mgIn = Pulled(mgUp0, 1)
        /\ consumed = SumTo(mgRuns, n) + (IF mgIn = NULL THEN 0 ELSE 1)
        /\ \A i \in DOMAIN mgRet :
             IF mgRet[i] # NULL
             THEN /\ mgRuns[i] >= 1
                  /\ Unfilled(getSequenceForSpecies(mgRet[i], Human).content)
                       = HumanText(mgUp0, RunStart(i), RunEnd(i))
             ELSE /\ mgRuns[i] = 0
                  /\ SumTo(mgRuns, i) = Len(mgUp0)
                  /\ \A j \in i..n : mgRet[j] = NULL
        /\ (mgUp0 = <<>> /\ n >= 1) => mgRet[1] = NULL

C19_Witness ==
  /\ obj = "BlockMergerMafIterator"
  /\ Len(mgUp0) = 3
  /\ mgRuns = <<2, 1, 0, 0>>
  /\ mgRet[2] = mgUp0[3] /\ mgRet[3] = NULL /\ mgRet[4] = NULL

\* The positions from the last one seq1 covers to the first one seq2 covers.
AnchorDistance(seq1, seq2) ==
  start(seq2).value - (start(seq1).value + SequenceTools_getNumberOfSites(seq1.content))

Filler(c) == \A i \in DOMAIN c : c[i] \in {UNKNOWN, GAP}

\* C20: merging a buffered block of n1 columns and a candidate of n2 columns whose
\* anchors are at distance d, 0 < d <= maxDist, gives a block of n1 + d + n2 columns:
\* in every sequence the two parts lie d filler columns apart, and each anchor in both
\* blocks starts where it starts in the buffered block and stops where it stops in the
\* candidate.
C20_MergeAcrossDistance ==
  obj = "BlockMergerMafIterator" =>
    \A k \in DOMAIN mgMerges :
      LET m  == mgMerges[k]
          n1 == getNumberOfSites(m.buffered)
          n2 == getNumberOfSites(m.candidate)
          d  == AnchorDistance(getSequenceForSpecies(m.buffered, Human),
                               getSequenceForSpecies(m.candidate, Human))
      IN  (0 < d /\ d <= mgf.maxDist_) =>
            /\ getNumberOfSites(m.merged) = n1 + d + n2
            /\ \A i \in DOMAIN m.merged.alignment_ :
                 LET seq == m.merged.alignment_[i]
                     sp  == seq.species_
                 IN  /\ Len(seq.content) = n1 + d + n2
                     /\ Filler(SubSeq(seq.content, n1 + 1, n1 + d))
                     /\ SubSeq(seq.content, 1, n1) =
                          (IF hasSpecies(m.buffered, sp)
                           THEN getSequenceForSpecies(m.buffered, sp).content
                           ELSE Repeat(GAP, n1))
                     /\ SubSeq(seq.content, n1 + d + 1, n1 + d + n2) =
                          (IF hasSpecies(m.candidate, sp)
                           THEN getSequenceForSpecies(m.candidate, sp).content
                           ELSE Repeat(GAP, n2))
                     /\ (/\ InList(mgf.species_, sp)
                         /\ hasSpecies(m.buffered, sp) /\ hasSpecies(m.candidate, sp)) =>
                          /\ SubSeq(seq.content, n1 + 1, n1 + d) = Repeat(UNKNOWN, d)
                          /\ start(seq) = start(getSequenceForSpecies(m.buffered, sp))
                          /\ stop(seq) = stop(getSequenceForSpecies(m.candidate, sp))

C20_Witness ==
  /\ obj = "BlockMergerMafIterator"
  /\ mgf.species_ = <<Human, Mouse>> /\ mgf.maxDist_ = 1
  /\ \E k \in DOMAIN mgMerges :
       LET m == mgMerges[k]
       IN  /\ AnchorDistance(getSequenceForSpecies(m.buffered, Human),
                             getSequenceForSpecies(m.candidate, Human)) = 1
           /\ hasSpecies(m.buffered, Mouse) /\ hasSpecies(m.candidate, Mouse)
           /\ getNumberOfSites(m.buffered) = 2 /\ getNumberOfSites(m.candidate) = 2
           /\ getNumberOfSites(m.merged) = 5
           /\ getSequenceForSpecies(m.merged, Human).content = <<"A", GAP, UNKNOWN, "A", GAP>>
           /\ \E i \in DOMAIN mgRet : mgRet[i] = m.merged

-----------------------------------------------------------------------------
(* SequenceFilterMafIterator *)

\* The block with only its sequences of the configured species, in their order.
Retained(f, block) ==
  [block EXCEPT !.alignment_ = SelectSeq(@, LAMBDA seq : InList(f.species_, seq.species_))]

\* Some species has more than one sequence in the block.
HasDuplicates(block) ==
  \E i, j \in DOMAIN block.alignment_ :
    i # j /\ block.alignment_[i].species_ = block.alignment_[j].species_

\* Whether the retained block is discarded.
SeqFilterDiscards(f, kept) ==
  \/ f.strict_ /\ \E k \in DOMAIN f.species_ : ~hasSpecies(kept, f.species_[k])
  \/ f.rmDuplicates_ /\ HasDuplicates(kept)
  \/ getNumberOfSequences(kept) = 0

\* SequenceFilterMafIterator::nextBlock on a filter f with upstream up: the result, the
\* upstream left, the upstream blocks discarded and what each pull gave.
RECURSIVE SeqFilterCall(_, _, _, _)
SeqFilterCall(f, up, del, pulled) ==
  LET block == Pulled(up, 1)
  IN  IF block = NULL \/ IsThrown(block)
      THEN [ret |-> block, up |-> Rest(up), del |-> del, pulled |-> Append(pulled, block)]
      ELSE LET kept == Retained(f, block)
           IN  IF SeqFilterDiscards(f, kept)
               THEN SeqFilterCall(f, Rest(up), Append(del, block), Append(pulled, block))
               ELSE [ret |-> kept, up |-> Rest(up), del |-> del,
                     pulled |-> Append(pulled, block)]

(* The species filter's upstream: blocks of one column whose sequences are of species
   h, m and r; a sequence's begin is its position in the block. *)
SpeciesPatterns ==
  { <<"h">>, <<"h", "m">>, <<"h", "h">>, <<"r">>, <<"m", "r", "m">> }

RECURSIVE SpeciesBlock(_, _)
SpeciesBlock(pattern, i) ==
  IF i = 0 THEN MafBlock
  ELSE addSequence(SpeciesBlock(pattern, i - 1),
                   MafSequence5(<<pattern[i], ".", "c">>, <<"A">>, i, "+", 9))

SpeciesLists ==
  {Tagged(l) : l \in SeqsUpTo({SpeciesBlock(p, Len(p)) : p \in SpeciesPatterns}, MaxBlocks)}

\* After SequenceFilterMafIterator(iterator, species, strict, rmDuplicates)
InitSFilt ==
  /\ obj = "SequenceFilterMafIterator"
  /\ \E species \in {<<<<"h">>>>, <<<<"h">>, <<"m">>>>}, strict \in BOOLEAN, rmDuplicates \in BOOLEAN :
       sff = [species_ |-> species, strict_ |-> strict, rmDuplicates_ |-> rmDuplicates,
              currentBlock_ |-> NULL]
  /\ sfUp0 \in SpeciesLists
  /\ sfUp = sfUp0
  /\ sfRet = <<>> /\ sfDel = <<>> /\ sfLast = NULL
  /\ IdleSeq /\ IdleBlock /\ IdleSize /\ IdleSync /\ IdleOut /\ IdleMerge /\ IdleTrash /\ IdleFGap /\ IdleWin /\ IdleGtf

SFiltFrame == UNCHANGED <<obj, seqVars, blockVars, sizeVars, syncVars, outVars, mergeVars, trashVars, fgapVars, winVars, gtfVars>>

SFiltNextBlock ==
  /\ obj = "SequenceFilterMafIterator"
  /\ Len(sfRet) < Len(sfUp0) + MaxEndCalls
  /\ LET r == SeqFilterCall(sff, sfUp, <<>>, <<>>)
     IN  /\ sfUp' = r.up
         /\ sfRet' = Append(sfRet, r.ret)
         /\ sfDel' = sfDel \o r.del
         /\ sfLast' = [pulled |-> r.pulled, ret |-> r.ret]
  /\ UNCHANGED <<sff, sfUp0>> /\ SFiltFrame

NextSFilt == SFiltNextBlock

SpecSFilt == InitSFilt /\ [][NextSFilt]_vars

\* The species of the sequences of a block, in order.
SpeciesIn(block) == [i \in DOMAIN block.alignment_ |-> block.alignment_[i].species_]

\* The conditions a block emitted by the filter f has to meet.
Emittable(f, block) ==
  LET sp == SpeciesIn(block)
  IN  /\ \A i \in DOMAIN sp : \E k \in DOMAIN f.species_ : sp[i] = f.species_[k]
      /\ Len(sp) >= 1
      /\ f.strict_ => \A k \in DOMAIN f.species_ : \E i \in DOMAIN sp : sp[i] = f.species_[k]
      /\ f.rmDuplicates_ => \A i, j \in DOMAIN sp : sp[i] = sp[j] => i = j

\* C11: every block the species filter emits holds only sequences of configured
\* species and at least one; with strict every configured species is in it, with
\* rmDuplicates no species is in it twice. The emitted blocks are the upstream blocks,
\* each reduced to the configured species, that meet these conditions, in order: the
\* others are discarded and the upstream is pulled again, until a block survives or
\* the upstream ends.
C11_SpeciesFilterEmits ==
  obj = "SequenceFilterMafIterator" =>
    LET used == Len(sfUp0) - Len(sfUp)
        reduced == [i \in 1..used |-> Retained(sff, sfUp0[i])]
        surviving == SelectSeq(reduced, LAMBDA b : Emittable(sff, b))
    IN  /\ \A i \in DOMAIN sfRet : sfRet[i] # NULL => Emittable(sff, sfRet[i])
        /\ BlocksOf(sfRet) = surviving
        /\ sfLast # NULL =>
             /\ sfLast.ret # NULL => sfLast.ret = Retained(sff, sfUp0[used])
             /\ sfLast.ret = NULL => sfUp = <<>>

C11_Witness ==
  /\ obj = "SequenceFilterMafIterator"
  /\ sff.strict_ /\ sff.rmDuplicates_ /\ Len(sff.species_) = 2
  /\ Len(sfUp0) = 3 /\ Len(sfDel) = 2
  /\ SpeciesIn(sfUp0[1]) = <<<<"h">>, <<"h">>>>
  /\ SpeciesIn(sfUp0[2]) = <<<<"m">>, <<"r">>, <<"m">>>>
  /\ sfRet = <<Retained(sff, sfUp0[3])>>
  /\ SpeciesIn(sfRet[1]) = <<<<"h">>, <<"m">>>>

-----------------------------------------------------------------------------
(* FullGapFilterMafIterator *)

\* Column c of the block is a gap in every sequence of a focal species.
IsFullGap(f, block, c) ==
  \A i \in DOMAIN block.alignment_ :
    InList(f.species_, block.alignment_[i].species_) => block.alignment_[i].content[c] = GAP

\* The content c without the columns of the set cols.
RECURSIVE WithoutColumns(_, _, _)
WithoutColumns(c, cols, i) ==
  IF i > Len(c) THEN <<>>
  ELSE (IF i \in cols THEN <<>> ELSE <<c[i]>>) \o WithoutColumns(c, cols, i + 1)

\* A sequence of the block once the columns cols are removed: a sequence that had a
\* symbol other than a gap in one of them loses its coordinates.
Excised(seq, cols) ==
  LET cut == WithContent(seq, WithoutColumns(seq.content, cols, 1))
  IN  IF \E c \in cols : seq.content[c] # GAP THEN removeCoordinates(cut) ELSE cut

\* The block without its columns that are gaps in every focal species.
WithoutFullGaps(f, block) ==
  LET cols == {c \in 1..getNumberOfSites(block) : IsFullGap(f, block, c)}
  IN  [block EXCEPT !.alignment_ = [i \in DOMAIN @ |-> Excised(@[i], cols)]]

\* FullGapFilterMafIterator::nextBlock on a filter f with upstream up: the result, the
\* upstream block it was made from, the upstream left, the blocks discarded and what
\* each pull gave.
RECURSIVE FullGapCall(_, _, _, _)
FullGapCall(f, up, del, pulled) ==
  LET block == Pulled(up, 1)
  IN  IF block = NULL \/ IsThrown(block)
      THEN [ret |-> block, from |-> NULL, up |-> Rest(up), del |-> del,
            pulled |-> Append(pulled, block)]
      ELSE LET cut == WithoutFullGaps(f, block)
           IN  IF getNumberOfSites(cut) = 0
               THEN FullGapCall(f, Rest(up), Append(del, block), Append(pulled, block))
               ELSE [ret |-> cut, from |-> block, up |-> Rest(up), del |-> del,
                     pulled |-> Append(pulled, block)]

(* The full-gap filter's upstream: blocks of the species h, m and x, given by the
   three texts. *)
GapTexts ==
  { << <<"A", GAP>>, <<"A", GAP>>, <<"A", "A">> >>,
    << <<GAP, "A">>, <<"A", "A">>, <<GAP, GAP>> >>,
    << <<GAP, GAP>>, <<GAP, GAP>>, <<"A", GAP>> >>,
    << <<"A", "A">>, <<"A", GAP>>, <<GAP, "A">> >>,
    << <<GAP>>, <<GAP>>, <<GAP>> >>,
    << <<GAP, "A", GAP>>, <<GAP, "A", GAP>>, <<"A", GAP, "A">> >> }

GapBlock(texts) ==
  LET b1 == addSequence(MafBlock, MafSequence5(<<"h", ".", "c">>, texts[1], 10, "+", 99))
      b2 == addSequence(b1, MafSequence5(<<"m", ".", "e">>, texts[2], 20, "-", 99))
  IN  addSequence(b2, MafSequence5(<<"x", ".", "f">>, texts[3], 30, "+", 99))

GapLists == {Tagged(l) : l \in SeqsUpTo({GapBlock(t) : t \in GapTexts}, MaxBlocks)}

\* After FullGapFilterMafIterator(iterator, species)
InitFGap ==
  /\ obj = "FullGapFilterMafIterator"
  /\ \E species \in {<<<<"h">>>>, <<<<"h">>, <<"m">>>>} : fgf = [species_ |-> species]
  /\ fgUp0 \in GapLists
  /\ fgUp = fgUp0
  /\ fgRet = <<>> /\ fgFrom = <<>> /\ fgDel = <<>> /\ fgLast = NULL
  /\ IdleSeq /\ IdleBlock /\ IdleSize /\ IdleSync /\ IdleOut /\ IdleMerge /\ IdleTrash /\ IdleSFilt /\ IdleWin /\ IdleGtf

FGapFrame == UNCHANGED <<obj, seqVars, blockVars, sizeVars, syncVars, outVars, mergeVars, trashVars, sfiltVars, winVars, gtfVars>>

FGapNextBlock ==
  /\ obj = "FullGapFilterMafIterator"
  /\ Len(fgRet) < Len(fgUp0) + MaxEndCalls
  /\ LET r == FullGapCall(fgf, fgUp, <<>>, <<>>)
     IN  /\ fgUp' = r.up
         /\ fgRet' = Append(fgRet, r.ret)
         /\ fgFrom' = Append(fgFrom, r.from)
         /\ fgDel' = fgDel \o r.del
         /\ fgLast' = [pulled |-> r.pulled, ret |-> r.ret]
  /\ UNCHANGED <<fgf, fgUp0>> /\ FGapFrame

NextFGap == FGapNextBlock

SpecFGap == InitFGap /\ [][NextFGap]_vars

\* The texts of the focal species' sequences of a block.
FocalTexts(f, block) ==
  {block.alignment_[i].content :
     i \in {j \in DOMAIN block.alignment_ :
              \E k \in DOMAIN f.species_ : block.alignment_[j].species_ = f.species_[k]}}

\* The columns of a block of n columns where every focal text has a gap.
AllFocalGap(f, block, n) == {c \in 1..n : \A t \in FocalTexts(f, block) : t[c] = GAP}

\* C12: a block the full-gap filter emits has at least one column and no column that
\* is a gap in all focal species; every sequence of it is the upstream block's
\* sequence without the columns that were gaps in all focal species, so each lost
\* as many columns as there were such columns.
C12_FullGapColumnsRemoved ==
  obj = "FullGapFilterMafIterator" =>
    \A i \in DOMAIN fgRet :
      fgRet[i] # NULL =>
        LET out  == fgRet[i].alignment_
            in   == fgFrom[i].alignment_
            n    == Len(in[1].content)
            gone == AllFocalGap(fgf, fgFrom[i], n)
        IN  /\ Len(out) = Len(in)
            /\ \A j \in DOMAIN out :
                 /\ Len(out[j].content) = n - Cardinality(gone)
                 /\ Len(out[j].content) >= 1
                 /\ out[j].name = in[j].name
                 /\ out[j].content = WithoutColumns(in[j].content, gone, 1)
            /\ AllFocalGap(fgf, fgRet[i], Len(out[1].content)) = {}

C12_Witness ==
  /\ obj = "FullGapFilterMafIterator"
  /\ Len(fgf.species_) = 2
  /\ Len(fgDel) = 1 /\ fgDel[1] = fgUp0[1]
  /\ Len(fgRet) = 1 /\ fgRet[1] # NULL
  /\ getNumberOfSites(fgFrom[1]) = 3 /\ getNumberOfSites(fgRet[1]) = 1
  /\ ~fgRet[1].alignment_[3].hasCoordinates_

-----------------------------------------------------------------------------
(* TrashIteratorAdapter *)

\* MafTrashIterator::nextRemovedBlock of a trash source that holds src: the next
\* removed block, end, or the exception the call threw.
TrashSource_nextRemovedBlock(src) == [ret |-> Pulled(src, 1), src |-> Rest(src)]

\* TrashIteratorAdapter::nextBlock: return iterator_->nextRemovedBlock()
TrashCall(src) ==
  LET r == TrashSource_nextRemovedBlock(src)
  IN  [ret |-> r.ret, src |-> r.src, pulled |-> <<r.ret>>]

InitTrash ==
  /\ obj = "TrashIteratorAdapter"
  /\ taSrc0 \in PrimaryLists \cup WithFailure(PrimaryLists)
  /\ taSrc = taSrc0
  /\ taRet = <<>> /\ taLast = NULL
  /\ IdleSeq /\ IdleBlock /\ IdleSize /\ IdleSync /\ IdleOut /\ IdleMerge /\ IdleSFilt /\ IdleFGap /\ IdleWin /\ IdleGtf

TrashFrame == UNCHANGED <<obj, seqVars, blockVars, sizeVars, syncVars, outVars, mergeVars, sfiltVars, fgapVars, winVars, gtfVars>>

TrashNextBlock ==
  /\ obj = "TrashIteratorAdapter"
  /\ Len(taRet) < Len(taSrc0) + MaxEndCalls
  /\ LET r == TrashCall(taSrc)
     IN  /\ taSrc' = r.src
         /\ taRet' = Append(taRet, r.ret)
         /\ taLast' = [pulled |-> r.pulled, ret |-> r.ret]
  /\ UNCHANGED taSrc0 /\ TrashFrame

NextTrash == TrashNextBlock

SpecTrash == InitTrash /\ [][NextTrash]_vars

-----------------------------------------------------------------------------
(* AlignmentFilterMafIterator *)

\* MafSequence::subSequence(startAt, length): the columns startAt (from 0) on; a
\* sequence with coordinates starts after the positions of the columns before them.
subSequence(seq, startAt, length) ==
  LET begin == IF seq.hasCoordinates_
               THEN seq.begin_ + SequenceTools_getNumberOfSites(SubSeq(seq.content, 1, startAt))
               ELSE seq.begin_
      sub == MafSequence5(seq.name, SubSeq(seq.content, startAt + 1, startAt + length),
                          begin, seq.strand_, seq.srcSize_)
  IN  IF seq.hasCoordinates_ THEN sub ELSE removeCoordinates(sub)

\* For each focal species, the flags of the block's columns: flagged if a gap.
ColumnFlags(f, block) ==
  [k \in DOMAIN f.species_ |->
     LET c == getSequenceForSpecies(block, f.species_[k]).content
     IN  [i \in DOMAIN c |-> c[i] = GAP]]

RECURSIVE CountFlags(_, _, _)
CountFlags(row, a, b) ==
  IF a > b THEN 0 ELSE (IF row[a] THEN 1 ELSE 0) + CountFlags(row, a + 1, b)

\* The flagged positions of the columns a to b, over all focal species.
RECURSIVE Flagged(_, _, _, _)
Flagged(window, k, a, b) ==
  IF k = 0 THEN 0 ELSE CountFlags(window[k], a, b) + Flagged(window, k - 1, a, b)

\* A variant in which a window with exactly maxGap_ flagged positions is marked too.
RECURSIVE Evaluate_inclusive(_, _, _)
Evaluate_inclusive(f, window, marks) ==
  LET a == marks.next
      b == marks.next + f.windowSize_ - 1
  IN  IF b > Len(marks.removed) THEN marks
      ELSE LET bad == Flagged(window, Len(window), a, b) >= f.maxGap_
           IN  Evaluate_inclusive(f, window,
                 [removed |-> [c \in DOMAIN marks.removed |->
                                 marks.removed[c] \/ (bad /\ a <= c /\ c <= b)],
                  next |-> marks.next + f.step_])

\* Evaluate every window that lies wholly in the columns at hand: a window with more
\* than maxGap_ flagged positions marks its columns as removed.
RECURSIVE Evaluate(_, _, _)
Evaluate(f, window, marks) ==
  LET a == marks.next
      b == marks.next + f.windowSize_ - 1
  IN  IF b > Len(marks.removed) THEN marks
      ELSE LET bad == Flagged(window, Len(window), a, b) > f.maxGap_
           IN  Evaluate(f, window,
                 [removed |-> [c \in DOMAIN marks.removed |->
                                 marks.removed[c] \/ (bad /\ a <= c /\ c <= b)],
                  next |-> marks.next + f.step_])

\* The runs of equal marks among the columns i to n: [first, last, removed].
RECURSIVE Runs(_, _, _)
Runs(m, i, n) ==
  IF i > n THEN <<>>
  ELSE LET RECURSIVE End(_)
           End(j) == IF j < n /\ m[j + 1] = m[i] THEN End(j + 1) ELSE j
           last == End(i)
       IN  <<[first |-> i, last |-> last, removed |-> m[i]]>> \o Runs(m, last + 1, n)

\* The columns first to last of a block whose columns are marked m: a sequence of
\* no focal species that has a symbol in a removed column loses its coordinates.
SubBlock(f, block, m, first, last) ==
  [block EXCEPT !.alignment_ =
     [i \in DOMAIN @ |->
        LET seq == @[i]
            sub == subSequence(seq, first - 1, last - first + 1)
        IN  IF /\ ~InList(f.species_, seq.species_)
               /\ \E c \in DOMAIN seq.content : m[c] /\ seq.content[c] # GAP
            THEN removeCoordinates(sub) ELSE sub]]

\* The pieces of a block whose columns are marked m, in column order.
Pieces(f, block, m) ==
  LET runs == Runs(m, 1, getNumberOfSites(block))
  IN  [r \in DOMAIN runs |->
         [from |-> block.pass_, first |-> runs[r].first, last |-> runs[r].last,
          removed |-> runs[r].removed,
          block |-> SubBlock(f, block, m, runs[r].first, runs[r].last)]]

BlocksIn(pieces) == [i \in DOMAIN pieces |-> pieces[i].block]

\* Split the pending blocks no later window can reach (all of them once the upstream
\* has ended): kept runs go to blockBuffer_, removed runs to trashBuffer_ if kept.
RECURSIVE Flush(_, _, _)
Flush(f, st, all) ==
  IF st.pending = <<>> THEN st
  ELSE LET block == Head(st.pending)
           n == getNumberOfSites(block)
           total == Len(st.marks.removed)
       IN  IF ~all /\ n >= st.marks.next THEN st
           ELSE LET pieces == Pieces(f, block, st.marks.removed)
                    kept == SelectSeq(pieces, LAMBDA p : ~p.removed)
                    gone == SelectSeq(pieces, LAMBDA p : p.removed)
                IN  Flush(f,
                      [pending |-> Tail(st.pending),
                       window |-> [k \in DOMAIN st.window |-> SubSeq(st.window[k], n + 1, total)],
                       marks |-> [removed |-> SubSeq(st.marks.removed, n + 1, total),
                                  next |-> IF st.marks.next > n THEN st.marks.next - n ELSE 1],
                       blockBuffer |-> st.blockBuffer \o BlocksIn(kept),
                       trashBuffer |-> IF f.keepTrashedBlocks_
                                       THEN st.trashBuffer \o BlocksIn(gone)
                                       ELSE st.trashBuffer,
                       splits |-> st.splits \o pieces],
                      all)

\* The state once the columns of a pulled block joined the window.
Joined(f, st, block) ==
  LET flags == ColumnFlags(f, block)
      window == [k \in DOMAIN st.window |-> st.window[k] \o flags[k]]
      marks == [removed |-> st.marks.removed \o Repeat(FALSE, getNumberOfSites(block)),
                next |-> st.marks.next]
  IN  [st EXCEPT !.pending = Append(@, block), !.window = window,
                 !.marks = Evaluate(f, window, marks)]

\* AlignmentFilterMafIterator::nextBlock: return the first kept sub-block at hand;
\* with none at hand, pull upstream blocks until one is.
RECURSIVE WinCall(_, _, _, _)
WinCall(f, st, up, pulled) ==
  IF st.blockBuffer # <<>>
  THEN [ret |-> Head(st.blockBuffer), st |-> [st EXCEPT !.blockBuffer = Tail(@)],
        up |-> up, pulled |-> pulled]
  ELSE LET block == Pulled(up, 1)
       IN  IF IsThrown(block)
           THEN [ret |-> block, st |-> st, up |-> Rest(up), pulled |-> Append(pulled, block)]
           ELSE IF block = NULL
           THEN LET last == Flush(f, st, TRUE)
                IN  IF last.blockBuffer = <<>>
                    THEN [ret |-> NULL, st |-> last, up |-> up,
                          pulled |-> Append(pulled, block)]
                    ELSE [ret |-> Head(last.blockBuffer),
                          st |-> [last EXCEPT !.blockBuffer = Tail(@)], up |-> up,
                          pulled |-> Append(pulled, block)]
           ELSE WinCall(f, Flush(f, Joined(f, st, block), FALSE), Rest(up),
                        Append(pulled, block))

\* A variant that hands out the block added last.
nextRemovedBlock_back(trashBuffer) ==
  IF Len(trashBuffer) = 0 THEN [ret |-> NULL, trashBuffer |-> trashBuffer]
  ELSE [ret |-> trashBuffer[Len(trashBuffer)],
        trashBuffer |-> SubSeq(trashBuffer, 1, Len(trashBuffer) - 1)]

\* A variant that takes two blocks off the queue for the one it returns.
nextRemovedBlock_popsTwo(trashBuffer) ==
  IF Len(trashBuffer) = 0 THEN [ret |-> NULL, trashBuffer |-> trashBuffer]
  ELSE [ret |-> Head(trashBuffer), trashBuffer |-> Rest(Tail(trashBuffer))]

\* AlignmentFilterMafIterator::nextRemovedBlock: the front of trashBuffer_, or end.
nextRemovedBlock(trashBuffer) ==
  IF Len(trashBuffer) = 0 THEN [ret |-> NULL, trashBuffer |-> trashBuffer]
  ELSE [ret |-> Head(trashBuffer), trashBuffer |-> Tail(trashBuffer)]

(* The windowed filter's upstream: blocks of the focal species h and of x, which has
   a symbol in every column. *)
WinTexts ==
  { <<"A", "A">>, <<"A", GAP>>, <<GAP, "A">>, <<"A", GAP, GAP, "A">>, <<GAP>>,
    <<"A", "A", GAP, "A", "A", "A", GAP, "A">>,
    <<"A", GAP, "A", GAP, GAP, "A", GAP, "A">> }

WinBlock(text) ==
  LET b1 == addSequence(MafBlock, MafSequence5(<<"h", ".", "c">>, text, 10, "+", 99))
  IN  addSequence(b1, MafSequence5(<<"x", ".", "f">>, Repeat("A", Len(text)), 30, "+", 99))

WinLists == {Tagged(l) : l \in SeqsUpTo({WinBlock(t) : t \in WinTexts}, MaxWinBlocks)}

\* Window size, step and maximum number of gaps.
WinSettings == { <<2, 1, 0>>, <<2, 2, 0>>, <<2, 2, 1>>, <<3, 2, 1>>, <<4, 2, 1>> }

\* After AlignmentFilterMafIterator(iterator, species, windowSize, step, maxGap,
\* keepTrashedBlocks): empty buffers, one empty window row per species.
InitWin ==
  /\ obj = "AlignmentFilterMafIterator"
  /\ \E w \in WinSettings, keep \in BOOLEAN :
       wff = [species_ |-> <<<<"h">>>>, windowSize_ |-> w[1], step_ |-> w[2],
              maxGap_ |-> w[3], keepTrashedBlocks_ |-> keep]
  /\ wfUp0 \in WinLists
  /\ wfUp = wfUp0
  /\ wfPending = <<>>
  /\ wfWindow = Repeat(<<>>, 1)
  /\ wfMarks = [removed |-> <<>>, next |-> 1]
  /\ wfBlockBuffer = <<>> /\ wfTrashBuffer = <<>>
  /\ wfRet = <<>> /\ wfRemoved = <<>> /\ wfSplits = <<>> /\ wfLast = NULL
  /\ IdleSeq /\ IdleBlock /\ IdleSize /\ IdleSync /\ IdleOut /\ IdleMerge /\ IdleTrash /\ IdleSFilt /\ IdleFGap /\ IdleGtf

WinFrame == UNCHANGED <<obj, seqVars, blockVars, sizeVars, syncVars, outVars, mergeVars, trashVars, sfiltVars, fgapVars, gtfVars>>

\* What a call finds: the upstream and the filter's buffers.
WinState ==
  [up |-> wfUp, pending |-> wfPending, window |-> wfWindow, marks |-> wfMarks,
   blockBuffer |-> wfBlockBuffer, trashBuffer |-> wfTrashBuffer]

WinNextBlock ==
  /\ obj = "AlignmentFilterMafIterator"
  /\ LET r == WinCall(wff, [pending |-> wfPending, window |-> wfWindow, marks |-> wfMarks,
                            blockBuffer |-> wfBlockBuffer, trashBuffer |-> wfTrashBuffer,
                            splits |-> <<>>],
                      wfUp, <<>>)
     IN  /\ wfUp' = r.up
         /\ wfPending' = r.st.pending
         /\ wfWindow' = r.st.window
         /\ wfMarks' = r.st.marks
         /\ wfBlockBuffer' = r.st.blockBuffer
         /\ wfTrashBuffer' = r.st.trashBuffer
         /\ wfSplits' = wfSplits \o r.st.splits
         /\ wfRet' = IF r.ret = NULL THEN wfRet ELSE Append(wfRet, r.ret)
         /\ wfLast' = [op |-> "nextBlock", ret |-> r.ret, pulled |-> r.pulled,
                       pre |-> WinState]
  /\ UNCHANGED <<wff, wfUp0, wfRemoved>> /\ WinFrame

WinNextRemovedBlock ==
  /\ obj = "AlignmentFilterMafIterator"
  /\ LET r == nextRemovedBlock(wfTrashBuffer)
     IN  /\ wfTrashBuffer' = r.trashBuffer
         /\ wfRemoved' = IF r.ret = NULL THEN wfRemoved ELSE Append(wfRemoved, r.ret)
         /\ wfLast' = [op |-> "nextRemovedBlock", ret |-> r.ret, pulled |-> <<>>,
                       pre |-> WinState]
  /\ UNCHANGED <<wff, wfUp, wfUp0, wfPending, wfWindow, wfMarks, wfBlockBuffer,
                 wfRet, wfSplits>>
  /\ WinFrame

\* TrashIteratorAdapter::nextBlock on an adapter of this filter:
\* return iterator_->nextRemovedBlock()
WinAdapterNextBlock ==
  /\ obj = "AlignmentFilterMafIterator"
  /\ LET r == nextRemovedBlock(wfTrashBuffer)
     IN  /\ wfTrashBuffer' = r.trashBuffer
         /\ wfRemoved' = IF r.ret = NULL THEN wfRemoved ELSE Append(wfRemoved, r.ret)
         /\ wfLast' = [op |-> "TrashIteratorAdapter::nextBlock", ret |-> r.ret,
                       pulled |-> <<>>, pre |-> WinState]
  /\ UNCHANGED <<wff, wfUp, wfUp0, wfPending, wfWindow, wfMarks, wfBlockBuffer,
                 wfRet, wfSplits>>
  /\ WinFrame

NextWin == WinNextBlock \/ WinNextRemovedBlock \/ WinAdapterNextBlock

SpecWin == InitWin /\ [][NextWin]_vars

\* The blocks of the kept, or of the removed, pieces made so far, in the order made.
PiecesMade(removed) == BlocksIn(SelectSeq(wfSplits, LAMBDA p : p.removed = removed))

\* The pieces the upstream block i was split into, in the order made.
PiecesOf(i) == SelectSeq(wfSplits, LAMBDA p : p.from = i)

\* The texts of sequence q of the pieces ps, from piece j on, one after the other.
RECURSIVE Rejoined(_, _, _)
Rejoined(ps, q, j) ==
  IF j > Len(ps) THEN <<>>
  ELSE ps[j].block.alignment_[q].content \o Rejoined(ps, q, j + 1)

C18_RemovedBlocksFirstInFirstOut ==
  obj = "AlignmentFilterMafIterator" =>
    /\ wfRemoved \o wfTrashBuffer
         = (IF wff.keepTrashedBlocks_ THEN PiecesMade(TRUE) ELSE <<>>)
    /\ (wfLast # NULL /\ wfLast.op \in {"nextRemovedBlock", "TrashIteratorAdapter::nextBlock"}) =>
         /\ (wfLast.ret = NULL) = (wfLast.pre.trashBuffer = <<>>)
         /\ wfLast.ret # NULL => wfLast.ret = wfLast.pre.trashBuffer[1]
         /\ wfTrashBuffer = Rest(wfLast.pre.trashBuffer)
         /\ wfLast.pulled = <<>> /\ wfUp = wfLast.pre.up
         /\ wfPending = wfLast.pre.pending
         /\ wfBlockBuffer = wfLast.pre.blockBuffer
         /\ wfWindow = wfLast.pre.window /\ wfMarks = wfLast.pre.marks

C18_Witness ==
  /\ obj = "AlignmentFilterMafIterator"
  /\ wfLast # NULL /\ wfLast.op = "TrashIteratorAdapter::nextBlock"
  /\ Len(wfLast.pre.trashBuffer) = 2
  /\ wfLast.ret = wfLast.pre.trashBuffer[1]
  /\ wfLast.pre.trashBuffer[1] # wfLast.pre.trashBuffer[2]
  /\ wfLast.pre.pending # <<>> /\ wfLast.pre.blockBuffer # <<>>
  /\ Len(wfRemoved) = 1

\* The text of species sp in the blocks i, i + 1, ... of l, one after the other.
RECURSIVE InputText(_, _, _)
InputText(l, sp, i) ==
  IF i > Len(l) THEN <<>>
  ELSE getSequenceForSpecies(l[i], sp).content \o InputText(l, sp, i + 1)

\* The upstream blocks pulled so far.
WinPulled == SubSeq(wfUp0, 1, Len(wfUp0) - Len(wfUp))

\* The number of columns of the upstream blocks before block i.
RECURSIVE ColumnsBefore(_, _)
ColumnsBefore(l, i) ==
  IF i <= 1 THEN 0 ELSE getNumberOfSites(l[i - 1]) + ColumnsBefore(l, i - 1)

\* The gaps the focal species have in the columns a to b of the pulled blocks.
GapsIn(a, b) ==
  Cardinality({<<k, c>> \in (DOMAIN wff.species_) \X (a..b) :
                 InputText(WinPulled, wff.species_[k], 1)[c] = GAP})

\* The first columns of the windows evaluated: every step_ columns from the first
\* column of the stream on, as long as the whole window lies in the pulled columns.
WindowStarts ==
  LET total == ColumnsBefore(WinPulled, Len(WinPulled) + 1)
  IN  {a \in 1..total : (a - 1) % wff.step_ = 0 /\ a + wff.windowSize_ - 1 <= total}

\* Column g of the stream lies in an evaluated window with more than maxGap_ gaps.
InFlaggedWindow(g) ==
  \E a \in WindowStarts :
    /\ a <= g /\ g <= a + wff.windowSize_ - 1
    /\ GapsIn(a, a + wff.windowSize_ - 1) > wff.maxGap_

-----------------------------------------------------------------------------
(* The stages over an upstream that fails: one of its pulls throws. *)

InitSizeFailing ==
  /\ obj = "BlockSizeMafIterator"
  /\ szf \in SizeConfigs
  /\ szUp0 \in WithFailure(PrimaryLists)
  /\ szUp = szUp0
  /\ szRet = <<>> /\ szDel = <<>> /\ szLog = <<>> /\ szLast = NULL
  /\ IdleSeq /\ IdleBlock /\ IdleSync /\ IdleOut /\ IdleMerge /\ IdleTrash /\ IdleSFilt /\ IdleFGap /\ IdleWin /\ IdleGtf

InitOutFailing ==
  /\ obj = "OutputMafIterator"
  /\ \E present \in BOOLEAN, mask \in BOOLEAN :
       /\ ouf = [output_ |-> present, mask_ |-> mask]
       /\ ouSink = IF present THEN writeHeader ELSE <<>>
  /\ ouUp0 \in WithFailure(PrimaryLists)
  /\ ouUp = ouUp0
  /\ ouRet = <<>> /\ ouLast = NULL
  /\ IdleSeq /\ IdleBlock /\ IdleSize /\ IdleSync /\ IdleMerge /\ IdleTrash /\ IdleSFilt /\ IdleFGap /\ IdleWin /\ IdleGtf

InitSyncFailing ==
  /\ obj = "MafIteratorSynchronizer"
  /\ \/ syP0 \in WithFailure(PrimaryLists) /\ syS0 \in SecondaryLists
     \/ syP0 \in PrimaryLists /\ syS0 \in WithFailure(SecondaryLists)
  /\ syP = syP0 /\ syS = syS0
  /\ syPulls = <<>> /\ syRet = <<>> /\ syDel = <<>> /\ syLast = NULL
  /\ IdleSeq /\ IdleBlock /\ IdleSize /\ IdleOut /\ IdleMerge /\ IdleTrash /\ IdleSFilt /\ IdleFGap /\ IdleWin /\ IdleGtf

InitFailing == InitSizeFailing \/ InitOutFailing \/ InitSyncFailing \/ InitTrash

NextFailing == SizeNextBlock \/ OutNextBlock \/ SyncNextBlock \/ TrashNextBlock

SpecFailing == InitFailing /\ [][NextFailing]_vars

\* The pull that gave pulled[i] threw, it was the last pull of the call, and the call
\* threw the same exception.
Propagated(pulled, ret) ==
  \A i \in DOMAIN pulled :
    IsThrown(pulled[i]) => (i = Len(pulled) /\ ret = pulled[i])

\* C15: when an upstream pull throws during nextBlock of the size filter, the tee
\* adapter, the trash adapter or the synchronizer (primary or secondary pull), the
\* call throws the same exception: the stage makes no further pull in that call,
\* writes nothing, and returns neither a block nor end.
C15_UpstreamErrorsPropagate ==
  /\ (obj = "BlockSizeMafIterator" /\ szLast # NULL) =>
       Propagated(szLast.pulled, szLast.ret)
  /\ (obj = "OutputMafIterator" /\ ouLast # NULL) =>
       /\ Propagated(ouLast.pulled, ouLast.ret)
       /\ IsThrown(ouLast.ret) => ouLast.wrote = <<>>
  /\ (obj = "TrashIteratorAdapter" /\ taLast # NULL) =>
       Propagated(taLast.pulled, taLast.ret)
  /\ (obj = "MafIteratorSynchronizer" /\ syLast # NULL) =>
       /\ IsThrown(syLast.first) =>
            /\ syLast.ret = syLast.first
            /\ syLast.pulls = <<"P">> /\ syLast.second = NotPulled
       /\ IsThrown(syLast.second) =>
            /\ syLast.ret = syLast.second
            /\ syLast.pulls = <<"P", "S">>

C15_Witness ==
  /\ obj = "OutputMafIterator"
  /\ ouf.output_
  /\ Len(ouRet) = 3 /\ ouRet[1] # NULL /\ ouRet[2] = Thrown(2) /\ ouRet[3] # NULL
  /\ ouLast.pulled = <<ouUp0[3]>>
  /\ ouSink = writeHeader \o writeBlock(ouUp0[1]) \o writeBlock(ouUp0[3])

\* What a pull gave is a block: not end, not an exception, not a pull left out.
IsBlock(x) == x # NULL /\ ~IsThrown(x) /\ x # NotPulled

\* How often a call that returned (or threw) ret and deleted the blocks del has
\* settled the ownership of block b: handing it to the caller, or deleting it.
Settled(b, ret, del) ==
  (IF ret = b THEN 1 ELSE 0) + Cardinality({i \in DOMAIN del : del[i] = b})

\* C23, as claimed: every block a nextBlock call of the size filter or of the
\* synchronizer pulled from an upstream is, when the call returns or throws, either
\* handed to the caller or deleted, exactly once; also the primary's block when the
\* secondary's pull throws.
C23_PulledBlocksSettledOnce ==
  /\ (obj = "BlockSizeMafIterator" /\ szLast # NULL) =>
       \A i \in DOMAIN szLast.pulled :
         IsBlock(szLast.pulled[i]) =>
           Settled(szLast.pulled[i], szLast.ret, szLast.del) = 1
  /\ (obj = "MafIteratorSynchronizer" /\ syLast # NULL) =>
       /\ IsBlock(syLast.first) =>
            Settled(syLast.first, syLast.ret, syLast.del) = 1
       /\ IsBlock(syLast.second) =>
            Settled(syLast.second, syLast.ret, syLast.del) = 1

-----------------------------------------------------------------------------
(* A MafIteratorSynchronizer whose primary is a windowed filter F that keeps its
   trashed blocks and whose secondary is TrashIteratorAdapter(F). *)

SyncOverTrash == "MafIteratorSynchronizer(AlignmentFilterMafIterator, TrashIteratorAdapter)"

\* What one pull of a source gave, as the source the synchronizer's call sees.
AsSource(x) == IF x = NULL THEN <<>> ELSE <<x>>

InitSyncTrash ==
  /\ obj = SyncOverTrash
  /\ \E w \in WinSettings :
       wff = [species_ |-> <<<<"h">>>>, windowSize_ |-> w[1], step_ |-> w[2],
              maxGap_ |-> w[3], keepTrashedBlocks_ |-> TRUE]
  /\ wfUp0 \in WinLists
  /\ wfUp = wfUp0
  /\ wfPending = <<>>
  /\ wfWindow = Repeat(<<>>, 1)
  /\ wfMarks = [removed |-> <<>>, next |-> 1]
  /\ wfBlockBuffer = <<>> /\ wfTrashBuffer = <<>>
  /\ wfRet = <<>> /\ wfRemoved = <<>> /\ wfSplits = <<>> /\ wfLast = NULL
  /\ syP = <<>> /\ syS = <<>> /\ syP0 = <<>> /\ syS0 = <<>>
  /\ syPulls = <<>> /\ syRet = <<>> /\ syDel = <<>> /\ syLast = NULL
  /\ IdleSeq /\ IdleBlock /\ IdleSize /\ IdleOut /\ IdleMerge /\ IdleTrash /\ IdleSFilt /\ IdleFGap /\ IdleGtf

SyncTrashFrame == UNCHANGED <<obj, seqVars, blockVars, sizeVars, outVars, mergeVars, trashVars, sfiltVars, fgapVars, gtfVars>>

\* The calls that returned end so far.
EndsReturned == Cardinality({i \in DOMAIN syRet : syRet[i] = NULL})

\* MafIteratorSynchronizer::nextBlock on this pipeline: firstIterator_->nextBlock() is
\* F's nextBlock, secondIterator_->nextBlock() the adapter's, which returns
\* F's nextRemovedBlock(); the second block is deleted, the first returned.
SyncTrashNextBlock ==
  /\ obj = SyncOverTrash
  /\ EndsReturned < MaxEndCalls
  /\ LET r1 == WinCall(wff, [pending |-> wfPending, window |-> wfWindow, marks |-> wfMarks,
                             blockBuffer |-> wfBlockBuffer, trashBuffer |-> wfTrashBuffer,
                             splits |-> <<>>],
                       wfUp, <<>>)
         r2 == nextRemovedBlock(r1.st.trashBuffer)
         r == SyncCall(AsSource(r1.ret), AsSource(r2.ret))
     IN  /\ wfUp' = r1.up
         /\ wfPending' = r1.st.pending
         /\ wfWindow' = r1.st.window
         /\ wfMarks' = r1.st.marks
         /\ wfBlockBuffer' = r1.st.blockBuffer
         /\ wfTrashBuffer' = r2.trashBuffer
         /\ wfSplits' = wfSplits \o r1.st.splits
         /\ wfRet' = IF r1.ret = NULL THEN wfRet ELSE Append(wfRet, r1.ret)
         /\ wfRemoved' = IF r2.ret = NULL THEN wfRemoved ELSE Append(wfRemoved, r2.ret)
         /\ wfLast' = [op |-> "nextBlock", ret |-> r1.ret, pulled |-> r1.pulled,
                       pre |-> WinState]
         /\ syPulls' = syPulls \o r.pulls
         /\ syRet' = Append(syRet, r.ret)
         /\ syDel' = syDel \o r.del
         /\ syLast' = [first |-> r.first, second |-> r.second, ret |-> r.ret,
                       pulls |-> r.pulls, del |-> r.del, leftP |-> <<>>, leftS |-> <<>>]
  /\ UNCHANGED <<wff, wfUp0, syP, syS, syP0, syS0>> /\ SyncTrashFrame

NextSyncTrash == SyncTrashNextBlock

SpecSyncTrash == InitSyncTrash /\ [][NextSyncTrash]_vars

\* C24, as claimed: on this pipeline every block F put in its trash queue has been
\* pulled by the secondary when a synchronizer call returns end: after the first
\* call that returned end, F's trash queue is empty.
C24_TrashDrainedAtEnd ==
  (obj = SyncOverTrash /\ syLast # NULL /\ syLast.ret = NULL) => wfTrashBuffer = <<>>

-----------------------------------------------------------------------------
(* GtfFeatureReader: a line is a sequence of characters. *)

TAB == "\t"

\* TextTools::isWhiteSpaceCharacter
isWhiteSpaceCharacter(c) == c \in {" ", TAB, "\n", "\r", "\f"}

\* TextTools::isEmpty: the string holds nothing but blanks, tabs and newlines.
isEmpty(s) == \A i \in DOMAIN s : s[i] \in {" ", TAB, "\n"}

\* The first position from i on whose character is (in = TRUE) or is not (in = FALSE)
\* one of set; 0 for std::string::npos.
RECURSIVE FindFirst(_, _, _, _)
FindFirst(s, set, in, i) ==
  IF i > Len(s) THEN 0
  ELSE IF (s[i] \in set) = in THEN i
  ELSE FindFirst(s, set, in, i + 1)

\* StringTokenizer(s, delimiters): the tokens between runs of delimiters; an empty
\* token is never made.
RECURSIVE StringTokenizer(_, _)
StringTokenizer(s, delimiters) ==
  LET index == FindFirst(s, delimiters, FALSE, 1)
  IN  IF index = 0 THEN <<>>
      ELSE LET newIndex == FindFirst(s, delimiters, TRUE, index)
           IN  IF newIndex = 0 THEN <<SubSeq(s, index, Len(s))>>
               ELSE <<SubSeq(s, index, newIndex - 1)>>
                      \o StringTokenizer(SubSeq(s, newIndex, Len(s)), delimiters)

\* TextTools::removeSurroundingWhiteSpaces
RECURSIVE removeSurroundingWhiteSpaces(_)
removeSurroundingWhiteSpaces(s) ==
  IF s = <<>> THEN s
  ELSE IF isWhiteSpaceCharacter(s[1]) THEN removeSurroundingWhiteSpaces(Tail(s))
  ELSE IF isWhiteSpaceCharacter(s[Len(s)])
  THEN removeSurroundingWhiteSpaces(SubSeq(s, 1, Len(s) - 1))
  ELSE s

\* TextTools::to<unsigned int>: the number the leading digits spell, 0 without any
\* (the inputs spell numbers far below the width of an unsigned int).
Digits == <<"0", "1", "2", "3", "4", "5", "6", "7", "8", "9">>
RECURSIVE ToUInt(_, _, _)
ToUInt(s, i, acc) ==
  IF i > Len(s) \/ ~(\E d \in DOMAIN Digits : Digits[d] = s[i]) THEN acc
  ELSE ToUInt(s, i + 1,
              acc * 10 + (CHOOSE d \in DOMAIN Digits : Digits[d] = s[i]) - 1)

\* The value of an attribute: quotes and white space taken off both ends.
RECURSIVE Unquoted(_)
Unquoted(value) ==
  IF value = <<>> THEN value
  ELSE IF value[1] = "\"" \/ isWhiteSpaceCharacter(value[1]) THEN Unquoted(Tail(value))
  ELSE IF value[Len(value)] = "\"" \/ isWhiteSpaceCharacter(value[Len(value)])
  THEN Unquoted(SubSeq(value, 1, Len(value) - 1))
  ELSE value

\* The items of the attribute column that hold something, trimmed.
AttributeItems(attrDesc) ==
  LET items == SelectSeq(StringTokenizer(attrDesc, {";"}), LAMBDA item : ~isEmpty(item))
  IN  [i \in DOMAIN items |-> removeSurroundingWhiteSpaces(items[i])]

\* An item without a blank: idx is npos and item.substr(idx) throws std::out_of_range.
SubstrThrows(item) == FindFirst(item, {" "}, TRUE, 1) = 0

\* The attributes map: for each key, the value of the last item with that key.
Attributes(items) ==
  LET key(i) == SubSeq(items[i], 1, FindFirst(items[i], {" "}, TRUE, 1) - 1)
      value(i) == Unquoted(SubSeq(items[i], FindFirst(items[i], {" "}, TRUE, 1), Len(items[i])))
      last(k) == CHOOSE i \in DOMAIN items :
                   key(i) = k /\ \A j \in DOMAIN items : key(j) = k => j <= i
  IN  [k \in {key(i) : i \in DOMAIN items} |-> value(last(k))]

\* The reader: the input stream's lines, position and eof bit, and nextLine_.
GtfState == [input |-> gtInput, term |-> gtTerm, pos |-> gtPos, eof |-> gtEof,
             nextLine |-> gtNextLine]

\* getline(input_, nextLine_): the next line of the stream; reaching the end of the
\* stream while reading (no line left, or a last line without a newline) sets eof.
getline(r) ==
  IF r.pos < Len(r.input)
  THEN [r EXCEPT !.nextLine = r.input[r.pos + 1], !.pos = r.pos + 1,
                 !.eof = (r.pos + 1 = Len(r.input) /\ ~r.term)]
  ELSE [r EXCEPT !.nextLine = <<>>, !.eof = TRUE]

\* The test of the loop of getNextLine_: the line is passed over.
SkippedLine(line) == isEmpty(line) \/ Len(line) < 2 \/ line[1] = "#"

RECURSIVE getNextLine_loop(_)
getNextLine_loop(r) ==
  IF SkippedLine(r.nextLine)
  THEN IF r.eof THEN [r EXCEPT !.nextLine = <<>>]
       ELSE getNextLine_loop(getline(r))
  ELSE r

\* GtfFeatureReader::getNextLine_
getNextLine_(r) == getNextLine_loop([r EXCEPT !.nextLine = <<>>])

\* hasMoreFeature(): nextLine_ is not empty.
hasMoreFeature(r) == r.nextLine # <<>>

NoMoreFeature == Thrown("GtfFeatureReader::nextFeature(). No more feature in file.")
WrongFormat ==
  Thrown("GtfFeatureReader::nextFeature(). Wrong GTF file format: should have 9 tab delimited columns.")
OutOfRange == Thrown("std::out_of_range")

\* The feature the nine columns st spell.
Feature(st) ==
  LET phase == removeSurroundingWhiteSpaces(st[8])
      attributes == Attributes(AttributeItems(st[9]))
  IN  [id |-> <<>>, seqId |-> st[1], source |-> st[2], type |-> st[3],
       start |-> IF ToUInt(st[4], 1, 0) = 0 THEN UINT_WRAP
                 ELSE Value(ToUInt(st[4], 1, 0) - 1),
       end |-> Value(ToUInt(st[5], 1, 0)), score |-> ToUInt(st[6], 1, 0),
       strand |-> st[7][1],
       phase |-> IF phase # <<".">> THEN phase ELSE NULL,
       attributes |-> attributes]

\* A variant that reads the next line before it reports a malformed line.
nextFeature_advancesOnError(r) ==
  IF ~hasMoreFeature(r) THEN [ret |-> NoMoreFeature, r |-> r]
  ELSE LET st == StringTokenizer(r.nextLine, {TAB})
       IN  IF Len(st) # 9 THEN [ret |-> WrongFormat, r |-> getNextLine_(r)]
           ELSE IF \E i \in DOMAIN AttributeItems(st[9]) : SubstrThrows(AttributeItems(st[9])[i])
           THEN [ret |-> OutOfRange, r |-> r]
           ELSE [ret |-> Feature(st), r |-> getNextLine_(r)]

\* GtfFeatureReader::nextFeature: what the call returns or throws, and the reader
\* after it.
nextFeature(r) ==
  IF ~hasMoreFeature(r) THEN [ret |-> NoMoreFeature, r |-> r]
  ELSE LET st == StringTokenizer(r.nextLine, {TAB})
       IN  IF Len(st) # 9 THEN [ret |-> WrongFormat, r |-> r]
           ELSE IF \E i \in DOMAIN AttributeItems(st[9]) : SubstrThrows(AttributeItems(st[9])[i])
           THEN [ret |-> OutOfRange, r |-> r]
           ELSE [ret |-> Feature(st), r |-> getNextLine_(r)]

\* The characters of the columns cols, a tab between two of them.
RECURSIVE TabJoined(_)
TabJoined(cols) ==
  IF Len(cols) = 0 THEN <<>>
  ELSE IF Len(cols) = 1 THEN cols[1]
  ELSE cols[1] \o <<TAB>> \o TabJoined(Tail(cols))

GtfColumns == << <<"c">>, <<"s">>, <<"t">>, <<"1">>, <<"2">>, <<".">>, <<"+">>, <<".">> >>

(* The lines of the inputs: a feature, a feature of another sequence that starts at
   0, a line of 8 columns, one of 10, one whose attribute has no value, one with an
   empty column among 10, an empty line, a comment, a line of one character and a
   line of blanks. *)
GtfLines ==
  { TabJoined(GtfColumns \o << <<"g", " ", "\"", "x", "\"", ";">> >>),
    TabJoined(<< <<"d">>, <<"s">>, <<"t">>, <<"0">>, <<"9">>, <<"5">>, <<"-">>, <<"1">>,
                 <<"g", " ", "y">> >>),
    TabJoined(GtfColumns),
    TabJoined(GtfColumns \o << <<"g", " ", "x">>, <<"e">> >>),
    TabJoined(GtfColumns \o << <<"g">> >>),
    TabJoined(GtfColumns \o << <<>>, <<"g", " ", "x">> >>),
    <<>>,
    <<"#", "c">>,
    <<"a">>,
    <<" ", " ">> }

GtfInputs == SeqsUpTo(GtfLines, MaxLines)

\* After GtfFeatureReader(input): the constructor reads the first line.
InitGtf ==
  /\ obj = "GtfFeatureReader"
  /\ gtInput \in GtfInputs
  /\ gtTerm \in BOOLEAN
  /\ ~gtTerm => (gtInput # <<>> /\ gtInput[Len(gtInput)] # <<>>)
  /\ LET r == getNextLine_([input |-> gtInput, term |-> gtTerm, pos |-> 0, eof |-> FALSE,
                            nextLine |-> <<>>])
     IN  gtPos = r.pos /\ gtEof = r.eof /\ gtNextLine = r.nextLine
  /\ gtRet = <<>> /\ gtLast = NULL
  /\ IdleSeq /\ IdleBlock /\ IdleSize /\ IdleSync /\ IdleOut /\ IdleMerge /\ IdleTrash /\ IdleSFilt /\ IdleFGap /\ IdleWin

GtfFrame == UNCHANGED <<obj, seqVars, blockVars, sizeVars, syncVars, outVars, mergeVars, trashVars, sfiltVars, fgapVars, winVars>>

GtfNextFeature ==
  /\ obj = "GtfFeatureReader"
  /\ Len(gtRet) < Len(gtInput) + MaxEndCalls
  /\ LET r == nextFeature(GtfState)
     IN  /\ gtPos' = r.r.pos /\ gtEof' = r.r.eof /\ gtNextLine' = r.r.nextLine
         /\ gtRet' = Append(gtRet, r.ret)
         /\ gtLast' = [pre |-> GtfState, ret |-> r.ret]
  /\ UNCHANGED <<gtInput, gtTerm>> /\ GtfFrame

NextGtf == GtfNextFeature

SpecGtf == InitGtf /\ [][NextGtf]_vars

\* The columns of a line, as the reader counts them: the parts between tabs that
\* hold at least one character.
TabColumns(line) == Cardinality({i \in DOMAIN line :
                                  line[i] # TAB /\ (i = 1 \/ line[i - 1] = TAB)})

\* A line the reader stops at: not blank, at least 2 characters, no comment.
Parsable(line) ==
  /\ \E i \in DOMAIN line : line[i] \notin {" ", TAB, "\n"}
  /\ Len(line) >= 2
  /\ line[1] # "#"

\* The lines of the input after the first n, up to the first one the reader stops at.
Passed(input, n) ==
  IF \E i \in (n + 1)..Len(input) : Parsable(input[i])
  THEN (CHOOSE i \in (n + 1)..Len(input) :
          Parsable(input[i]) /\ \A j \in (n + 1)..(i - 1) : ~Parsable(input[j])) - n
  ELSE Len(input) - n

\* C25: nextFeature throws when no feature remains and when the current line does
\* not have exactly 9 tab-delimited columns; a call that throws leaves the reader as
\* it was, so the same call throws the same again; a call that returns a feature
\* moves the reader to the next line that is not blank, has at least 2 characters
\* and does not start with '#', or to the end state when the input has no such line.
C25_FailsWithoutAdvancing ==
  (obj = "GtfFeatureReader" /\ gtLast # NULL) =>
    LET pre == gtLast.pre
    IN  /\ pre.nextLine = <<>> => gtLast.ret = NoMoreFeature
        /\ (pre.nextLine # <<>> /\ TabColumns(pre.nextLine) # 9) => gtLast.ret = WrongFormat
        /\ IsThrown(gtLast.ret) =>
             /\ GtfState = pre
             /\ nextFeature(GtfState).ret = gtLast.ret
        /\ ~IsThrown(gtLast.ret) =>
             /\ TabColumns(pre.nextLine) = 9
             /\ gtPos = pre.pos + Passed(gtInput, pre.pos)
             /\ IF gtPos > pre.pos /\ Parsable(gtInput[gtPos])
                THEN gtNextLine = gtInput[gtPos]
                ELSE gtNextLine = <<>> /\ gtPos = Len(gtInput)

\* A feature was returned and the reader passed a comment to stop at a line of 8
\* columns, on which two calls in a row threw the format error.
C25_Witness ==
  /\ obj = "GtfFeatureReader"
  /\ Len(gtInput) = 3 /\ gtInput[2] = <<"#", "c">>
  /\ Len(gtRet) = 3
  /\ ~IsThrown(gtRet[1]) /\ gtRet[2] = WrongFormat /\ gtRet[3] = WrongFormat
  /\ gtNextLine = gtInput[3] /\ TabColumns(gtNextLine) = 8

-----------------------------------------------------------------------------
(* Every object that holds or hands on blocks. *)

InitPipeline == InitBlock \/ InitSize \/ InitSync \/ InitOut \/ InitMerge

NextPipeline == NextBlock \/ NextSize \/ NextSync \/ NextOut \/ NextMerge

SpecPipeline == InitPipeline /\ [][NextPipeline]_vars

AllAligned(l) == \A i \in DOMAIN l : l[i] # NULL => Aligned(l[i])

Init == InitSeq \/ InitPipeline
Next == NextSeq \/ NextPipeline
Spec == Init /\ [][Next]_vars

=============================================================================
